---------------------------- MODULE Spec2Model ----------------------------
(***************************************************************************)
(* Flatmap viewer: the annotation grammar and parser (annotation.js), the  *)
(* annotation store of a FlatMap with its two indexes and the annotation   *)
(* dialog (flatmap.js, annotation.js), and the ontology key normalisation  *)
(* (ontologies.js).                                                        *)
(*                                                                         *)
(* JavaScript strings are modelled as sequences of one-character strings,  *)
(* so that the grammar works on characters and string functions (substr,   *)
(* padStart, join, template literals) are computed, not assumed.           *)
(***************************************************************************)
EXTENDS Integers, Sequences, FiniteSets, TLC

VARIABLES
    text, result, parsePc, given,                   \* Parser.parseAnnotation
    key, normalised, renormalised, keyPc,           \* ModelOntologies.normaliseKey
    heap, idToAnnotation, urlToAnnotation, metadata,\* FlatMap
    featureStates,
    currentAnn, dialog, last,                       \* Annotator
    entities, tableLoaded, lookedUp,                \* ModelOntologies
    styleRules, sequence, rulesMap, registered,     \* StyleSheet
    loadThrew,
    feature, stack, visits, resolved, stylePc,      \* a style query
    rendering, painted, paintPc,                    \* a feature being painted
    layers, activeLayers, activeLayerIds,           \* LayerManager
    serverIndex, mapIndex, initialised,             \* MapManager
    initialisingMutex, mapNumber, fetches, loads,
    layerFeatures, styleLayers, styleLayerIds,      \* the style layers of a layer
    constructed, constructThrew,
    options, userInteractions, contextMenuReports,  \* UserInteractions
    enabled, layerSwitcher, userInterfaceLoadedCallback,
    callbackCalls, resolves, stateTimer,
    selectedFeature, highlightedFeatures, inQuery, modal,
    tooltip, contextMenu, handlerThrew

parserVars == <<text, result, parsePc, given>>
ontologyVars == <<key, normalised, renormalised, keyPc>>
flatmapVars == <<heap, idToAnnotation, urlToAnnotation, metadata, featureStates>>
annotatorVars == <<currentAnn, dialog, last>>
resolverVars == <<entities, tableLoaded, lookedUp>>
styleVars == <<styleRules, sequence, rulesMap, registered, loadThrew>>
queryVars == <<feature, stack, visits, resolved, stylePc>>
paintVars == <<rendering, painted, paintPc>>
earlierVars == <<parserVars, ontologyVars, flatmapVars, annotatorVars,
                 resolverVars, styleVars, queryVars>>
layerVars == <<layers, activeLayers, activeLayerIds>>
managerVars == <<serverIndex, mapIndex, initialised, initialisingMutex,
                 mapNumber, fetches, loads>>
styleLayerVars == <<layerFeatures, styleLayers, styleLayerIds, constructed,
                    constructThrew>>
interfaceVars == <<options, userInteractions, contextMenuReports, enabled,
                   layerSwitcher, userInterfaceLoadedCallback, callbackCalls,
                   resolves, stateTimer, selectedFeature, highlightedFeatures,
                   inQuery, modal, tooltip, contextMenu, handlerThrew>>
laterVars == <<paintVars, layerVars, managerVars, styleLayerVars, interfaceVars>>
vars == <<earlierVars, laterVars>>

---------------------------------------------------------------------------
(* Strings as character sequences *)

RECURSIVE Concat(_)
Concat(ss) == IF ss = <<>> THEN <<>> ELSE Head(ss) \o Concat(Tail(ss))

\* Array.prototype.join(sep) on an array of strings
RECURSIVE join(_, _)
join(ss, sep) ==
    IF ss = <<>> THEN <<>>
    ELSE IF Len(ss) = 1 THEN ss[1]
    ELSE ss[1] \o sep \o join(Tail(ss), sep)

LowerCase == {"a", "b", "c", "d", "e", "f", "g", "h", "i", "j", "k", "l", "m", "n", "o", "p", "q", "r", "s", "t", "u", "v", "w", "x", "y", "z"}
UpperCase == {"A", "B", "C", "D", "E", "F", "G", "H", "I", "J", "K", "L", "M", "N", "O", "P", "Q", "R", "S", "T", "U", "V", "W", "X", "Y", "Z"}
Digit == {"0", "1", "2", "3", "4", "5", "6", "7", "8", "9"}

---------------------------------------------------------------------------
(* Values built by the generated parser: a matched string, or the array    *)
(* of the results of a sequence or a repetition.                           *)

Str(s) == [t |-> "str", v |-> s]
Arr(a) == [t |-> "arr", v |-> a]

\* String(value): a string is itself, an array is its elements joined by ','
RECURSIVE toString(_)
toString(val) ==
    IF val.t = "str" THEN val.v
    ELSE join([i \in 1..Len(val.v) |-> toString(val.v[i])], <<",">>)

(* Parsing expressions of the grammar *)
Lit(s) == [k |-> "lit", s |-> s]
Class(set) == [k |-> "class", set |-> set, neg |-> FALSE]
NotClass(set) == [k |-> "class", set |-> set, neg |-> TRUE]
Sequence(es) == [k |-> "seq", es |-> es]
Choice(es) == [k |-> "choice", es |-> es]
Star(e) == [k |-> "star", e |-> e]
Plus(e) == [k |-> "plus", e |-> e]
Ref(name) == [k |-> "rule", name |-> name]
Action(e, f) == [k |-> "action", e |-> e, f |-> f]

Match(p, val) == [ok |-> TRUE, pos |-> p, val |-> val]
NoMatch == [ok |-> FALSE, pos |-> 0, val |-> Str(<<>>)]

---------------------------------------------------------------------------
(* GRAMMER: the rules of the annotation grammar, as written *)

ANNOTATION ==
    Sequence(<<Ref("FEATURE_ID"),
               Star(Sequence(<<Ref("whitespace"), Ref("SPECIFICATION")>>))>>)

SPECIFICATION == Choice(<<Ref("FEATURE_CLASS"), Ref("PROPERTY_SPEC")>>)

FEATURE_CLASS == Choice(<<Ref("NODE_SPEC"), Ref("EDGE_SPEC")>>)

NODE_SPEC ==
    Sequence(<<Lit(<<"n", "o", "d", "e">>), Ref("whitespace"), Lit(<<"(">>), Ref("whitespace"),
               Ref("NEURAL_NODE"), Ref("whitespace"), Lit(<<")">>)>>)

NEURAL_NODE ==
    Choice(<<Lit(<<"N", "1">>), Lit(<<"N", "2">>), Lit(<<"N", "3">>), Lit(<<"N", "4">>), Lit(<<"N", "5">>)>>)

EDGE_SPEC ==
    Sequence(<<Lit(<<"e", "d", "g", "e">>), Ref("whitespace"), Lit(<<"(">>), Ref("whitespace"),
               Ref("FEATURE_ID_LIST"), Ref("whitespace"), Lit(<<")">>)>>)

PROPERTY_SPEC ==
    Choice(<<Ref("MODELS_SPEC"), Ref("LABEL_SPEC"), Ref("ROUTING_SPEC")>>)

LABEL_SPEC ==
    Sequence(<<Lit(<<"l", "a", "b", "e", "l">>), Ref("whitespace"), Lit(<<"(">>),
               Plus(NotClass({")"})), Lit(<<")">>)>>)

MODELS_SPEC ==
    Sequence(<<Lit(<<"m", "o", "d", "e", "l", "s">>), Ref("whitespace"), Lit(<<"(">>), Ref("whitespace"),
               Ref("ONTOLOGY_ID_LIST"), Ref("whitespace"), Lit(<<")">>)>>)

ROUTING_SPEC ==
    Sequence(<<Ref("ROUTING"), Ref("whitespace"), Lit(<<"(">>), Ref("whitespace"),
               Ref("FEATURE_ID"), Ref("whitespace"), Lit(<<")">>)>>)

ROUTING == Choice(<<Lit(<<"s", "o", "u", "r", "c", "e">>), Lit(<<"t", "a", "r", "g", "e", "t">>), Lit(<<"v", "i", "a">>)>>)

ONTOLOGY_ID_LIST ==
    Sequence(<<Ref("ONTOLOGY_ID"), Ref("whitespace"),
               Star(Sequence(<<Lit(<<",">>), Ref("whitespace"), Ref("ONTOLOGY_ID")>>))>>)

\* ontology_id:(ONTOLOGY_SUFFIX + ':' + IDENTIFIER) { return ontology_id.join(''); }
\* where a '+' after an expression is the grammar's one-or-more operator
ONTOLOGY_ID ==
    Action(Sequence(<<Plus(Ref("ONTOLOGY_SUFFIX")), Plus(Lit(<<":">>)),
                      Ref("IDENTIFIER")>>), "join")

ONTOLOGY_SUFFIX == Choice(<<Lit(<<"F", "M", "A">>), Lit(<<"I", "L", "X">>), Lit(<<"U", "B", "E", "R", "O", "N">>)>>)

FEATURE_ID_LIST ==
    Sequence(<<Ref("FEATURE_ID"), Ref("whitespace"),
               Star(Sequence(<<Lit(<<",">>), Ref("whitespace"), Ref("FEATURE_ID")>>))>>)

\* '#' feature_id:(IDENTIFIER) { return feature_id }
FEATURE_ID == Action(Sequence(<<Lit(<<"#">>), Ref("IDENTIFIER")>>), "second")

START_ID == Choice(<<Class(LowerCase), Class(UpperCase), Class(Digit)>>)

\* start:START_ID rest:(START_ID / [./:\-_])* { return start + rest.join(''); }
IDENTIFIER ==
    Action(Sequence(<<Ref("START_ID"),
                      Star(Choice(<<Ref("START_ID"), Class({".", "/", ":", "-", "_"})>>))>>),
           "start_rest")

\* _ "whitespace" = [ \t]* { return '' }
whitespace == Action(Star(Class({" ", "\t"})), "empty")

Rule(name) ==
    CASE name = "ANNOTATION" -> ANNOTATION
      [] name = "SPECIFICATION" -> SPECIFICATION
      [] name = "FEATURE_CLASS" -> FEATURE_CLASS
      [] name = "NODE_SPEC" -> NODE_SPEC
      [] name = "NEURAL_NODE" -> NEURAL_NODE
      [] name = "EDGE_SPEC" -> EDGE_SPEC
      [] name = "PROPERTY_SPEC" -> PROPERTY_SPEC
      [] name = "LABEL_SPEC" -> LABEL_SPEC
      [] name = "MODELS_SPEC" -> MODELS_SPEC
      [] name = "ROUTING_SPEC" -> ROUTING_SPEC
      [] name = "ROUTING" -> ROUTING
      [] name = "ONTOLOGY_ID_LIST" -> ONTOLOGY_ID_LIST
      [] name = "ONTOLOGY_ID" -> ONTOLOGY_ID
      [] name = "ONTOLOGY_SUFFIX" -> ONTOLOGY_SUFFIX
      [] name = "FEATURE_ID_LIST" -> FEATURE_ID_LIST
      [] name = "FEATURE_ID" -> FEATURE_ID
      [] name = "IDENTIFIER" -> IDENTIFIER
      [] name = "START_ID" -> START_ID
      [] name = "whitespace" -> whitespace

\* The code blocks with an IDENTIFIER that returns its start alone
StartOfIdentifier(f, val) ==
    CASE f = "join" -> Str(Concat([i \in 1..Len(val.v) |-> toString(val.v[i])]))
      [] f = "second" -> val.v[2]
      [] f = "start_rest" -> Str(val.v[1].v)
      [] f = "empty" -> Str(<<>>)

\* The code blocks { ... } of the grammar, applied to the matched value
SemanticAction(f, val) ==
    CASE f = "join" -> Str(Concat([i \in 1..Len(val.v) |-> toString(val.v[i])]))
      [] f = "second" -> val.v[2]
      [] f = "start_rest" ->
            Str(val.v[1].v \o Concat([i \in 1..Len(val.v[2].v) |-> toString(val.v[2].v[i])]))
      [] f = "empty" -> Str(<<>>)

---------------------------------------------------------------------------
(* The generated parser: ordered choice, greedy repetition, no backtracking *)
(* into a repetition, a sequence's result is the array of its parts.       *)

RECURSIVE Eval(_, _, _), EvalSeq(_, _, _, _), EvalChoice(_, _, _), EvalStar(_, _, _, _)

Eval(e, t, p) ==
    CASE e.k = "lit" ->
            IF p + Len(e.s) - 1 <= Len(t) /\ SubSeq(t, p, p + Len(e.s) - 1) = e.s
            THEN Match(p + Len(e.s), Str(e.s)) ELSE NoMatch
      [] e.k = "class" ->
            IF p <= Len(t) /\ ((t[p] \in e.set) # e.neg)
            THEN Match(p + 1, Str(<<t[p]>>)) ELSE NoMatch
      [] e.k = "seq" -> EvalSeq(e.es, t, p, <<>>)
      [] e.k = "choice" -> EvalChoice(e.es, t, p)
      [] e.k = "star" -> EvalStar(e.e, t, p, <<>>)
      [] e.k = "plus" ->
            LET r == EvalStar(e.e, t, p, <<>>)
            IN  IF Len(r.val.v) > 0 THEN r ELSE NoMatch
      [] e.k = "rule" -> Eval(Rule(e.name), t, p)
      [] e.k = "action" ->
            LET r == Eval(e.e, t, p)
            IN  IF r.ok THEN Match(r.pos, SemanticAction(e.f, r.val)) ELSE NoMatch

EvalSeq(es, t, p, acc) ==
    IF es = <<>> THEN Match(p, Arr(acc))
    ELSE LET r == Eval(Head(es), t, p)
         IN  IF r.ok THEN EvalSeq(Tail(es), t, r.pos, Append(acc, r.val)) ELSE NoMatch

EvalChoice(es, t, p) ==
    IF es = <<>> THEN NoMatch
    ELSE LET r == Eval(Head(es), t, p)
         IN  IF r.ok THEN r ELSE EvalChoice(Tail(es), t, p)

EvalStar(e, t, p, acc) ==
    LET r == Eval(e, t, p)
    IN  IF r.ok THEN EvalStar(e, t, r.pos, Append(acc, r.val)) ELSE Match(p, Arr(acc))

\* parser.parse(text): the start rule must match the whole input, otherwise
\* a SyntaxError is thrown
SyntaxErrorMessage == "Expected ... but ... found."

Parsed(t, r) ==
    IF r.ok /\ r.pos = Len(t) + 1
    THEN [ok |-> TRUE, value |-> r.val]
    ELSE [ok |-> FALSE, name |-> "SyntaxError", message |-> SyntaxErrorMessage]

parse(t) == Parsed(t, Eval(Ref("ANNOTATION"), t, 1))

---------------------------------------------------------------------------
(* Parser.parseAnnotation *)

\* One turn of the loop over parsed[1]: property = spec[1][0], params = spec[1][4];
\* a string is pushed as it is, a list as params[0] and each param[2] of params[2]
AddSpec(properties, spec) ==
    LET property == spec.v[2].v[1].v
        params == spec.v[2].v[5]
        parameters == IF property \in DOMAIN properties THEN properties[property] ELSE <<>>
        pushed ==
            IF params.t = "str" THEN Append(parameters, params.v)
            ELSE Append(parameters, params.v[1].v)
                     \o [i \in 1..Len(params.v[3].v) |-> params.v[3].v[i].v[3].v]
    IN  [k \in DOMAIN properties \cup {property} |->
            IF k = property THEN pushed ELSE properties[k]]

RECURSIVE CollectProperties(_, _)
CollectProperties(properties, specs) ==
    IF specs = <<>> THEN properties
    ELSE CollectProperties(AddSpec(properties, Head(specs)), Tail(specs))

\* Lines 315-319: models is properties.models when there is one, else []
WithModels(r) ==
    r @@ ("models" :>
            IF "properties" \in DOMAIN r /\ <<"m", "o", "d", "e", "l", "s">> \in DOMAIN r.properties
            THEN r.properties[<<"m", "o", "d", "e", "l", "s">>] ELSE <<>>)

\* result['properties'] is assigned inside the loop, once per spec
WithProperties(r, specs) ==
    IF specs = <<>> THEN r
    ELSE r @@ ("properties" :> CollectProperties(<<>>, specs))

\* A try block that sets result['id'] where it sets result['properties']
IdWithProperties(t, parsed) ==
    IF parsed.v[2].v = <<>> THEN ("text" :> t)
    ELSE WithProperties(("text" :> t) @@ ("id" :> parsed.v[1].v), parsed.v[2].v)

\* Lines 286-307: the try block, given what parse returned
Tried(t, parsed) ==
    WithProperties(("text" :> t) @@ ("id" :> parsed.v[1].v), parsed.v[2].v)

\* A catch block after which models is left unset
CaughtWithoutModels(t, error) ==
    IF error.name = "SyntaxError"
    THEN ("text" :> t) @@ ("error" :> error.message)
    ELSE [thrown |-> error.name]

\* Lines 308-314: the catch block, given what parse threw
Caught(t, error) ==
    IF error.name = "SyntaxError"
    THEN WithModels(("text" :> t) @@ ("error" :> error.message))
    ELSE [thrown |-> error.name]

ParseResult(t, outcome) ==
    IF outcome.ok THEN WithModels(Tried(t, outcome.value)) ELSE Caught(t, outcome)

parseAnnotation(t) == ParseResult(t, parse(t))

---------------------------------------------------------------------------
(* Annotation texts given to the parser: texts written after the grammar   *)
(* (an identifier and a list of clauses), and texts put together from      *)
(* arbitrary pieces.                                                       *)

MaxClauses == 3
MaxChunks == 3

Clause(name, values, written) == [name |-> name, values |-> values, written |-> written]

ClauseChoices == {
    Clause(<<"m", "o", "d", "e", "l", "s">>, <<<<"U", "B", "E", "R", "O", "N", ":", "0", "0", "0", "0", "3", "8", "8">>>>, <<"m", "o", "d", "e", "l", "s", "(", "U", "B", "E", "R", "O", "N", ":", "0", "0", "0", "0", "3", "8", "8", ")">>),
    Clause(<<"m", "o", "d", "e", "l", "s">>, <<<<"F", "M", "A", ":", "2">>, <<"I", "L", "X", ":", "3">>>>, <<"m", "o", "d", "e", "l", "s", "(", " ", "F", "M", "A", ":", "2", " ", ",", " ", "I", "L", "X", ":", "3", " ", ")">>),
    Clause(<<"l", "a", "b", "e", "l">>, <<<<"e", "p", "i", "g", "l", "o", "t", "t", "i", "s">>>>, <<"l", "a", "b", "e", "l", "(", "e", "p", "i", "g", "l", "o", "t", "t", "i", "s", ")">>),
    Clause(<<"s", "o", "u", "r", "c", "e">>, <<<<"n", "2">>>>, <<"s", "o", "u", "r", "c", "e", "(", "#", "n", "2", ")">>),
    Clause(<<"v", "i", "a">>, <<<<"n", "3">>>>, <<"v", "i", "a", "(", " ", "#", "n", "3", " ", ")">>),
    Clause(<<"n", "o", "d", "e">>, <<<<"N", "1">>>>, <<"n", "o", "d", "e", "(", "N", "1", ")">>),
    Clause(<<"e", "d", "g", "e">>, <<<<"a">>, <<"b">>>>, <<"e", "d", "g", "e", "(", "#", "a", ",", "#", "b", ")">>) }

IdChoices == { <<"n", "1">>, <<"a", "-", "b", ".", "c">> }
SeparatorChoices == { <<" ">>, <<>> }

RawChunks == { <<"#", "n", "1">>, <<" ">>, <<"f", "o", "o", "(", "x", ")">>, <<"m", "o", "d", "e", "l", "s", "(", "U", "B", "E", "R", "O", "N", ":", "1", ")">>, <<"m", "o", "d", "e", "l", "s", "(", "F", "M", "A", "I", "L", "X", ":", ":", "1", ")">>,
               <<"l", "a", "b", "e", "l", "(", ")">>, <<"#">>, <<"n">>, <<"s", "o", "u", "r", "c", "e", "(", "#", "a", ")">> }

RECURSIVE SeqsUpTo(_, _)
SeqsUpTo(S, n) ==
    IF n = 0 THEN {<<>>}
    ELSE LET shorter == SeqsUpTo(S, n - 1)
         IN  shorter \cup {Append(s, x) : s \in {q \in shorter : Len(q) = n - 1}, x \in S}

Givens ==
    {[raw |-> FALSE, id |-> i, clauses |-> cs, first |-> s1, between |-> s2] :
        i \in IdChoices, cs \in SeqsUpTo(ClauseChoices, MaxClauses),
        s1 \in SeparatorChoices, s2 \in SeparatorChoices}
    \cup {[raw |-> TRUE, chunks |-> cs] : cs \in SeqsUpTo(RawChunks, MaxChunks)}

\* The text of a given input
Written(g) ==
    IF g.raw THEN Concat(g.chunks)
    ELSE <<"#">> \o g.id
         \o Concat([i \in 1..Len(g.clauses) |->
                (IF i = 1 THEN g.first ELSE g.between) \o g.clauses[i].written])

NoResult == [none |-> TRUE]

ParseText ==
    /\ parsePc = "parse"
    /\ result' = parseAnnotation(text)
    /\ parsePc' = "done"
    /\ UNCHANGED <<text, given>>

---------------------------------------------------------------------------
(* ModelOntologies.normaliseKey *)

PrefixLength == 7
PadLength == 7

Min(a, b) == IF a < b THEN a ELSE b

\* String.prototype.substr(start, length) and substr(start), start counted from 0
substr(s, start, length) == SubSeq(s, start + 1, Min(Len(s), start + length))
substrFrom(s, start) == SubSeq(s, start + 1, Len(s))

\* String.prototype.padStart(targetLength, padString)
padStart(s, targetLength, padString) ==
    IF Len(s) >= targetLength \/ padString = <<>> THEN s
    ELSE [i \in 1..(targetLength - Len(s)) |-> padString[((i - 1) % Len(padString)) + 1]] \o s

\* A normalisation that rewrites the prefix and leaves the digits as they are
normaliseKeyUnpadded(k) ==
    IF substr(k, 0, PrefixLength) \in {<<"U", "B", "E", "R", "O", "N", ":">>, <<"U", "B", "E", "R", "O", "N", "_">>}
    THEN <<"U", "B", "E", "R", "O", "N", "_">> \o substrFrom(k, PrefixLength)
    ELSE k

normaliseKey(k) ==
    IF substr(k, 0, PrefixLength) \in {<<"U", "B", "E", "R", "O", "N", ":">>, <<"U", "B", "E", "R", "O", "N", "_">>}
    THEN <<"U", "B", "E", "R", "O", "N", "_">> \o padStart(substrFrom(k, PrefixLength), PadLength, <<"0">>)
    ELSE k

MaxDigits == 8

KeyPrefixes == { <<"U", "B", "E", "R", "O", "N", ":">>, <<"U", "B", "E", "R", "O", "N", "_">>, <<"F", "M", "A", ":">>, <<"U", "B", "E", "R", "O", "N">>, <<"u", "b", "e", "r", "o", "n", ":">>, <<>> }
KeyDigits == { "0", "3", "8" }
DigitStrings == SeqsUpTo(KeyDigits, MaxDigits)
Keys == {p \o n : p \in KeyPrefixes, n \in DigitStrings}

Normalise ==
    /\ keyPc = "normalise"
    /\ normalised' = normaliseKey(key)
    /\ keyPc' = "again"
    /\ UNCHANGED <<key, renormalised>>

NormaliseAgain ==
    /\ keyPc = "again"
    /\ renormalised' = normaliseKey(normalised)
    /\ keyPc' = "done"
    /\ UNCHANGED <<key, normalised>>

---------------------------------------------------------------------------
(* FlatMap: the annotations of a map, indexed by feature id and by url.    *)
(*                                                                         *)
(* An annotation is an object: the two indexes hold references to it, and  *)
(* heap maps a reference to the object's fields. A field that is not set   *)
(* is not in the object's domain ('error' in ann is "error" \in DOMAIN ann).*)

NumFeatures == 2

Features == 1..NumFeatures
Layers == { <<"A">>, <<"B">> }

\* this._source
Source == <<"s">>

\* The layer a feature is drawn in (UserInteractions.selectedFeatureLayerName
\* of the selected feature) and whether its geometry is a Polygon
FeatureLayer(f) == IF f <= 2 THEN <<"A">> ELSE <<"B">>
FeatureQueryable(f) == f % 2 = 1

Put(m, k, v) == [x \in DOMAIN m \cup {k} |-> IF x = k THEN v ELSE m[x]]
Remove(m, k) == [x \in DOMAIN m \ {k} |-> m[x]]
EmptyMap == <<>>

\* A new object: the first reference not in use
NewRef(h) == CHOOSE n \in 1..(Cardinality(DOMAIN h) + 1) : n \notin DOMAIN h

RECURSIVE Listed(_)
Listed(S) ==
    IF S = {} THEN <<>>
    ELSE LET x == CHOOSE y \in S : TRUE IN <<x>> \o Listed(S \ {x})

RECURSIVE Ascending(_)
Ascending(S) ==
    IF S = {} THEN <<>>
    ELSE LET least == CHOOSE x \in S : \A y \in S : x <= y
         IN  <<least>> \o Ascending(S \ {least})

\* Objects no index refers to are gone, and which reference names an object is
\* not observable: the objects are numbered in the order of the feature ids that
\* hold them, then of the urls that hold the others
Collect(fm) ==
    LET features == Ascending(DOMAIN fm.idToAnnotation)
        byFeature == [i \in 1..Len(features) |-> fm.idToAnnotation[features[i]]]
        held == {byFeature[i] : i \in 1..Len(byFeature)}
        urls == Listed({u \in DOMAIN fm.urlToAnnotation : fm.urlToAnnotation[u] \notin held})
        order == byFeature \o [i \in 1..Len(urls) |-> fm.urlToAnnotation[urls[i]]]
        Renamed(r) == CHOOSE i \in 1..Len(order) : order[i] = r
    IN  [fm EXCEPT !.heap = [i \in 1..Len(order) |-> fm.heap[order[i]]],
                   !.idToAnnotation = [f \in DOMAIN fm.idToAnnotation |->
                                            Renamed(fm.idToAnnotation[f])],
                   !.urlToAnnotation = [u \in DOMAIN fm.urlToAnnotation |->
                                            Renamed(fm.urlToAnnotation[u])]]

\* `${this._source}/${ann.layer}/${ann.id}`: a field that is not set is written 'undefined'
Undefined == <<"u", "n", "d", "e", "f", "i", "n", "e", "d">>
annotationUrl(ann) ==
    Source \o <<"/">> \o ann.layer \o <<"/">>
           \o (IF "id" \in DOMAIN ann THEN ann.id ELSE Undefined)

getAnnotation(fm, featureId) ==
    IF featureId \in DOMAIN fm.idToAnnotation
    THEN [found |-> TRUE, ann |-> fm.heap[fm.idToAnnotation[featureId]]]
    ELSE [found |-> FALSE]

\* null when no annotation is stored under the url
featureIdForUrl(fm, url) ==
    IF url \in DOMAIN fm.urlToAnnotation
    THEN fm.heap[fm.urlToAnnotation[url]].featureId
    ELSE 0

\* ann is a new object; it is given its url and featureId and put in both indexes
addAnnotation_(fm, featureId, ann) ==
    LET url == annotationUrl(ann)
        ref == NewRef(fm.heap)
        obj == Put(Put(ann, "url", url), "featureId", featureId)
    IN  [fm EXCEPT !.heap = Put(fm.heap, ref, obj),
                   !.idToAnnotation = Put(fm.idToAnnotation, featureId, ref),
                   !.urlToAnnotation = Put(fm.urlToAnnotation, url, ref)]

delAnnotation_(fm, featureId, ann) ==
    LET url == annotationUrl(ann)
    IN  [fm EXCEPT !.idToAnnotation = Remove(fm.idToAnnotation, featureId),
                   !.urlToAnnotation = Remove(fm.urlToAnnotation, url)]

\* x.id === y.id, where one or both may be undefined
SameId(x, y) ==
    IF "id" \in DOMAIN x
    THEN "id" \in DOMAIN y /\ x.id = y.id
    ELSE "id" \notin DOMAIN y

uniqueAnnotation(fm, ann) ==
    LET url == annotationUrl(ann)
    IN  \/ url \notin DOMAIN fm.urlToAnnotation
        \/ SameId(fm.heap[fm.urlToAnnotation[url]], ann)

\* The flags of the feature state of a feature; a feature without a state has
\* none.  A feature state holds other values too, as the colour of a feature,
\* which are not flags
FlagNames == {"selected", "highlighted", "annotated", "annotation-error"}

StateOf(fm, featureId) ==
    IF featureId \in DOMAIN fm.states THEN fm.states[featureId] ELSE {}

\* map.setFeatureState(feature, {flag: true})
setFeatureState(fm, featureId, flag) ==
    [fm EXCEPT !.states = Put(@, featureId, StateOf(fm, featureId) \cup {flag})]

\* map.removeFeatureState(feature, flag), and of every flag without one
removeFeatureState(fm, featureId, flags) ==
    [fm EXCEPT !.states = Put(@, featureId, StateOf(fm, featureId) \ flags)]

\* Lines 458-466 of setAnnotation: the error of the annotation goes to the metadata
SetMetadataError(fm, featureId, ann) ==
    IF "error" \in DOMAIN ann
    THEN IF featureId \in DOMAIN fm.metadata
         THEN setFeatureState(
                  [fm EXCEPT !.metadata[featureId] = Put(@, "error", ann.error)],
                  featureId, "annotation-error")
         ELSE [fm EXCEPT !.threw = TRUE]
    ELSE removeFeatureState(
             IF featureId \in DOMAIN fm.metadata
             THEN [fm EXCEPT !.metadata[featureId] = Remove(@, "error")]
             ELSE fm,
             featureId, {"annotation-error"})

\* setAnnotation up to its request to the server; posted tells whether the
\* metadata is sent (updateAnnotations)
setAnnotationOfIndexOnly(fm, featureId, ann) ==
    LET changed ==
            IF featureId \in DOMAIN fm.metadata
            THEN IF ann.text = <<>>
                 THEN [removeFeatureState(
                           delAnnotation_([fm EXCEPT !.metadata = Remove(@, featureId)],
                                          featureId, ann),
                           featureId, FlagNames)
                          EXCEPT !.posted = TRUE]
                 ELSE IF ann.text # fm.metadata[featureId].annotation
                 THEN LET oldAnn == getAnnotation(fm, featureId)
                          unlinked ==
                              IF /\ oldAnn.found
                                 /\ ~SameId(oldAnn.ann, ann)
                                 /\ ~("error" \in DOMAIN oldAnn.ann
                                        /\ oldAnn.ann.error = "duplicate-id")
                              THEN [fm EXCEPT !.urlToAnnotation =
                                                Remove(@, annotationUrl(oldAnn.ann))]
                              ELSE fm
                          added == addAnnotation_(unlinked, featureId, ann)
                      IN  [added EXCEPT !.posted = TRUE]
                 ELSE fm
            ELSE IF ann.text # <<>>
                 THEN [setFeatureState(
                           addAnnotation_(
                              [fm EXCEPT !.metadata = Put(@, featureId,
                                  [annotation |-> ann.text,
                                   geometry |-> IF ann.queryable THEN "Polygon" ELSE "LineString",
                                   layer |-> ann.layer])],
                              featureId, ann),
                           featureId, "annotated")
                          EXCEPT !.posted = TRUE]
                 ELSE fm
    IN  Collect(SetMetadataError(changed, featureId, ann))

setAnnotation(fm, featureId, ann) ==
    LET changed ==
            IF featureId \in DOMAIN fm.metadata
            THEN IF ann.text = <<>>
                 THEN [removeFeatureState(
                           delAnnotation_([fm EXCEPT !.metadata = Remove(@, featureId)],
                                          featureId, ann),
                           featureId, FlagNames)
                          EXCEPT !.posted = TRUE]
                 ELSE IF ann.text # fm.metadata[featureId].annotation
                 THEN LET oldAnn == getAnnotation(fm, featureId)
                          unlinked ==
                              IF /\ oldAnn.found
                                 /\ ~SameId(oldAnn.ann, ann)
                                 /\ ~("error" \in DOMAIN oldAnn.ann
                                        /\ oldAnn.ann.error = "duplicate-id")
                              THEN [fm EXCEPT !.urlToAnnotation =
                                                Remove(@, annotationUrl(oldAnn.ann))]
                              ELSE fm
                          added == addAnnotation_(unlinked, featureId, ann)
                      IN  [added EXCEPT !.metadata[featureId].annotation = ann.text,
                                        !.posted = TRUE]
                 ELSE fm
            ELSE IF ann.text # <<>>
                 THEN [setFeatureState(
                           addAnnotation_(
                              [fm EXCEPT !.metadata = Put(@, featureId,
                                  [annotation |-> ann.text,
                                   geometry |-> IF ann.queryable THEN "Polygon" ELSE "LineString",
                                   layer |-> ann.layer])],
                              featureId, ann),
                           featureId, "annotated")
                          EXCEPT !.posted = TRUE]
                 ELSE fm
    IN  Collect(SetMetadataError(changed, featureId, ann))

\* An annotation that is given an error whatever its entry has
AnnotationMarked(m, parsed) ==
    Put(Put(IF "error" \notin DOMAIN parsed
            THEN Put(parsed, "error", "duplicate-id") ELSE parsed,
            "layer", m.layer),
        "queryable", "geometry" \in DOMAIN m /\ m.geometry = "Polygon")

\* Lines 126-133: the annotation made of a metadata entry and its parsed text
Annotation(m, parsed) ==
    Put(Put(IF "error" \in DOMAIN m /\ "error" \notin DOMAIN parsed
            THEN Put(parsed, "error", m.error) ELSE parsed,
            "layer", m.layer),
        "queryable", "geometry" \in DOMAIN m /\ m.geometry = "Polygon")

\* FlatMap.constructor, lines 122-135: the persisted metadata is parsed and indexed,
\* feature by feature in the order of Object.entries (fs)
RECURSIVE LoadMetadata(_, _)
LoadMetadata(fm, fs) ==
    IF fs = <<>> THEN fm
    ELSE LoadMetadata(
            addAnnotation_(fm, Head(fs),
                Annotation(fm.metadata[Head(fs)],
                           parseAnnotation(fm.metadata[Head(fs)].annotation))),
            Tail(fs))

NewFlatMap(md) ==
    Collect(LoadMetadata([heap |-> EmptyMap, idToAnnotation |-> EmptyMap,
                          urlToAnnotation |-> EmptyMap, metadata |-> md,
                          states |-> EmptyMap,
                          posted |-> FALSE, threw |-> FALSE],
                         Ascending(DOMAIN md)))

\* The map as the variables hold it
ThisMap ==
    [heap |-> heap, idToAnnotation |-> idToAnnotation,
     urlToAnnotation |-> urlToAnnotation, metadata |-> metadata,
     states |-> featureStates,
     posted |-> FALSE, threw |-> FALSE]

---------------------------------------------------------------------------
(* Persisted metadata of a map, as the server sends it *)

PersistedTexts == { <<"#", "a">>, <<"#", "b">>, <<"a", "?">> }

\* An entry of a feature: an annotation text on the feature's layer, which the
\* map maker may have marked as a duplicate identifier
Entry(f, t) ==
    [annotation |-> t, layer |-> FeatureLayer(f),
     geometry |-> IF FeatureQueryable(f) THEN "Polygon" ELSE "LineString"]

PersistedEntries(f) ==
    {Entry(f, t) : t \in PersistedTexts}
        \cup {Put(Entry(f, t), "error", "duplicate-id") : t \in PersistedTexts \ {<<"a", "?">>}}

AllMetadata ==
    UNION {{md \in [fs -> UNION {PersistedEntries(f) : f \in fs}] :
                \A f \in fs : md[f] \in PersistedEntries(f)} : fs \in SUBSET Features}

\* The url an entry's annotation is indexed under when the map is loaded
EntryUrl(m, parsed) == annotationUrl(Put(parsed, "layer", m.layer))
EntryUrls(md) == [f \in DOMAIN md |-> EntryUrl(md[f], parseAnnotation(md[f].annotation))]

Distinct(urls) == \A f, g \in DOMAIN urls : f # g => urls[f] # urls[g]

\* The annotations of a persisted map have urls of their own
WellFormed(md) == Distinct(EntryUrls(md))

PersistedMetadata == {md \in AllMetadata : WellFormed(md)}

---------------------------------------------------------------------------
(* Annotator: the annotation dialog *)

\* What the user may type into the dialog's text field
DialogTexts == { <<>>, <<"#", "a">>, <<"#", "b">>, <<"#", "u", "n", "d", "e", "f", "i", "n", "e", "d">>, <<"a", "?">> }

\* parser.parseAnnotation of each of them
ParsedText == [t \in DialogTexts |-> parseAnnotation(t)]

NoAnn == [none |-> TRUE]

\* Whether the last handler sent the metadata to the server, and whether it threw
Last(fm) == [posted |-> fm.posted, threw |-> fm.threw]

\* Annotator.editAnnotation, for the feature of the context menu: a stored
\* annotation of another layer is moved to the feature's layer, in place
editAnnotation(featureId) ==
    /\ dialog = "closed"
    /\ LET featureLayerName == FeatureLayer(featureId)
       IN  IF featureId \in DOMAIN idToAnnotation
           THEN LET ref == idToAnnotation[featureId]
                    ann == IF heap[ref].layer # featureLayerName
                           THEN Put(heap[ref], "layer", featureLayerName)
                           ELSE heap[ref]
                IN  /\ heap' = [heap EXCEPT ![ref] = ann]
                    /\ currentAnn' = ann
           ELSE /\ heap' = heap
                /\ currentAnn' = [featureId |-> featureId, layer |-> featureLayerName,
                                  queryable |-> FeatureQueryable(featureId), text |-> <<>>]
    /\ dialog' = "open"
    /\ last' = Last(ThisMap)
    /\ UNCHANGED <<idToAnnotation, urlToAnnotation, metadata, featureStates>>

\* Lines 158-159: the annotation the dialog makes of a text that parses
NewAnn(parsed) ==
    Put(Put(parsed, "layer", currentAnn.layer), "queryable", currentAnn.queryable)

\* Lines 160-167
SaveNew(fm, newAnn) ==
    IF uniqueAnnotation(fm, newAnn)
    THEN [fm |-> setAnnotation(fm, currentAnn.featureId, newAnn), again |-> FALSE]
    ELSE [fm |-> fm, again |-> TRUE]

\* Lines 170-175
SaveEmpty(fm) ==
    [fm |-> setAnnotation(fm, currentAnn.featureId,
                [layer |-> currentAnn.layer, models |-> <<>>,
                 queryable |-> FALSE, text |-> <<>>]),
     again |-> FALSE]

\* Annotator.dialogClose_, given what parser.parseAnnotation makes of the text:
\* what becomes of the map, and whether the dialog is shown again
DialogOutcome(fm, returnValue, newText, parsed) ==
    IF returnValue # "Save" THEN [fm |-> fm, again |-> FALSE]
    ELSE IF newText = <<>> THEN SaveEmpty(fm)
    ELSE IF "error" \in DOMAIN parsed THEN [fm |-> fm, again |-> TRUE]
    ELSE IF currentAnn.text # newText THEN SaveNew(fm, NewAnn(parsed))
    ELSE [fm |-> fm, again |-> FALSE]

Closed(outcome) ==
    /\ heap' = outcome.fm.heap
    /\ idToAnnotation' = outcome.fm.idToAnnotation
    /\ urlToAnnotation' = outcome.fm.urlToAnnotation
    /\ metadata' = outcome.fm.metadata
    /\ featureStates' = outcome.fm.states
    /\ dialog' = IF outcome.again THEN "open" ELSE "closed"
    /\ currentAnn' = IF outcome.again THEN currentAnn ELSE NoAnn
    /\ last' = Last(outcome.fm)

dialogClose_(returnValue, newText) ==
    /\ dialog = "open"
    /\ Closed(DialogOutcome(ThisMap, returnValue, newText, ParsedText[newText]))
---------------------------------------------------------------------------
(* ModelOntologies: the table of entities (ontologies.js)                  *)

\* new Entity(key, properties)
Entity(id, properties) ==
    [id |-> id, label |-> properties.label,
     part_of |-> properties.part_of, is_a |-> properties.is_a]

\* ModelOntologies._entities after the loop of initialize_: every entry of the
\* table is set under the key it has in the table
Initialized(es, table) ==
    [k \in DOMAIN es \cup DOMAIN table |->
        IF k \in DOMAIN table THEN Entity(k, table[k]) ELSE es[k]]

\* ModelOntologies.getEntity: undefined when the normalised key is not in the map
getEntity(es, k) ==
    IF normaliseKey(k) \in DOMAIN es
    THEN [found |-> TRUE, entity |-> es[normaliseKey(k)]]
    ELSE [found |-> FALSE]

NoLookup == [none |-> TRUE]

\* ModelOntologies.new: the table is loaded once
initialize_(table) ==
    /\ ~tableLoaded
    /\ entities' = Initialized(entities, table)
    /\ tableLoaded' = TRUE
    /\ UNCHANGED lookedUp

\* A caller of getEntity, once the table is loaded
LookUp(k) ==
    /\ tableLoaded
    /\ lookedUp' = [key |-> k, got |-> getEntity(entities, k)]
    /\ UNCHANGED <<entities, tableLoaded>>

\* Tables of UBERON and other terms, as uberon.json may hold them: a term is
\* in the table under one of its written forms
Leaf(label) == [label |-> label, part_of |-> <<>>, is_a |-> <<>>]

Labels == {"epiglottis", "pharynx"}

TermForms == <<
    { <<"U", "B", "E", "R", "O", "N", ":", "3", "8", "8">>, <<"U", "B", "E", "R", "O", "N", "_", "3", "8", "8">>, <<"U", "B", "E", "R", "O", "N", ":", "0", "0", "0", "0", "3", "8", "8">>, <<"U", "B", "E", "R", "O", "N", "_", "0", "0", "0", "0", "3", "8", "8">> },
    { <<"U", "B", "E", "R", "O", "N", "_", "0", "0", "0", "1", "0", "4", "2">>, <<"U", "B", "E", "R", "O", "N", ":", "1", "0", "4", "2">> },
    { <<"F", "M", "A", ":", "1", "2">> } >>

AllForms == UNION {TermForms[i] : i \in DOMAIN TermForms}

UberonTables ==
    {[k \in ks |-> Leaf(l[k])] :
        ks \in {s \in SUBSET AllForms :
                    \A i \in DOMAIN TermForms : Cardinality(s \cap TermForms[i]) <= 1},
        l \in [AllForms -> Labels]}

\* The keys entities are looked up with
LookupKeys == AllForms \cup { <<"F", "M", "A", ":", "1", "3">>, <<"U", "B", "E", "R", "O", "N", ":", "3", "8", "9">> }

---------------------------------------------------------------------------
(* StyleSheet: the rules of the stylesheets loaded (stylesheet.js)         *)
(*                                                                         *)
(* The text of a stylesheet is given as the blocks the CSS parser reads    *)
(* from it. The parser (cssparser) stops with an error at a block it       *)
(* cannot read; the rules it returns hold their selectors and a            *)
(* declaration list.                                                       *)

Declaration(property, value) == [property |-> [value |-> property], value |-> value]

DeclarationList(declarations) == [type |-> "DECLARATION_LIST", value |-> declarations]

QualifiedRule(selectors, declarations) ==
    [type |-> "QUALIFIED_RULE", selectors |-> selectors,
     value |-> DeclarationList(declarations)]

\* A block the parser cannot read
Malformed == [type |-> "MALFORMED"]

\* cssText.trim() === ''
Blank(cssText) == cssText = <<>>

\* this._parser.parse(cssText): a syntax error is thrown
CssParse(cssText) ==
    IF \E i \in 1..Len(cssText) : cssText[i] = Malformed
    THEN [ok |-> FALSE]
    ELSE [ok |-> TRUE, value |-> [type |-> "STYLESHEET", value |-> cssText]]

\* SPECIFICITY.calculate(selector)[0]['specificityArray'] of a simple selector
SpecificityArray(selector) ==
    IF selector # <<>> /\ Head(selector) = "#" THEN <<0, 1, 0, 0>>
    ELSE IF selector # <<>> /\ Head(selector) = "." THEN <<0, 0, 1, 0>>
    ELSE <<0, 0, 0, 1>>

\* SPECIFICITY.compare(a, b): the arrays are compared from the left
RECURSIVE SpecificityCompare(_, _)
SpecificityCompare(a, b) ==
    IF a = <<>> THEN 0
    ELSE IF Head(a) > Head(b) THEN 1
    ELSE IF Head(a) < Head(b) THEN -1
    ELSE SpecificityCompare(Tail(a), Tail(b))

\* new StyleRule(selector, styling, position)
StyleRule(selector, styling, position) ==
    [selector |-> selector, styling |-> styling,
     specificity |-> SpecificityArray(selector), position |-> position]

\* StyleRule.compare: when the specificities are equal, the position of this
\* rule is compared with itself
compare(this, other) ==
    LET order == SpecificityCompare(this.specificity, other.specificity)
    IN  IF order # 0 THEN order
        ELSE IF this.position > this.position THEN 1
        ELSE IF this.position < this.position THEN -1
        ELSE 0

\* The rules of a parsed stylesheet, one for each selector of each rule, with
\* the sequence numbers from `from` on (lines 99-108)
RECURSIVE RulesOf(_, _)
RulesOf(rules, from) ==
    IF rules = <<>> THEN <<>>
    ELSE LET rule == Head(rules)
             new == [i \in 1..Len(rule.selectors) |->
                        StyleRule(rule.selectors[i], rule.value, from + i - 1)]
         IN  new \o RulesOf(Tail(rules), from + Len(rule.selectors))

\* this._styleRules.sort((a, b) => a.compare(b)): the result is in the order of
\* compare; where compare returns 0, the order is the one the engine's sort
\* leaves (a sort need not be stable)
Sorted(rules) ==
    {[i \in 1..Len(rules) |-> rules[p[i]]] : p \in
        {q \in Permutations(1..Len(rules)) :
            \A i, j \in 1..Len(rules) : i < j => compare(rules[q[i]], rules[q[j]]) <= 0}}

\* The most rules the stylesheets loaded have between them
MaxRules == 2

\* StyleSheet.addStyleRules_ (stylesheet.js)
addStyleRules_(cssText) ==
    /\ stylePc = "loading"
    /\ IF Blank(cssText)
       THEN UNCHANGED <<styleRules, sequence, loadThrew>>
       ELSE IF ~CssParse(cssText).ok
       THEN loadThrew' = TRUE /\ UNCHANGED <<styleRules, sequence>>
       ELSE LET new == RulesOf(CssParse(cssText).value.value, sequence)
            IN  /\ Len(styleRules) + Len(new) <= MaxRules
                /\ styleRules' \in Sorted(styleRules \o new)
                /\ sequence' = sequence + Len(new)
                /\ loadThrew' = FALSE
    /\ UNCHANGED <<rulesMap, registered>>

---------------------------------------------------------------------------
(* The style of a feature: StyleSheet.styling, Entity.style and the walk   *)
(* over the superclasses of the feature's models                           *)

\* A style: the values of the properties declared
NoStyle == [none |-> TRUE]
EmptyStyle == <<>>

\* Style.merge(other): the properties of other are set in this style
merge(this, other) ==
    [p \in DOMAIN this \cup DOMAIN other |->
        IF p \in DOMAIN other THEN other[p] ELSE this[p]]

\* StyleRule.matches, for the selector a style is asked for
matches(rule, selector) == rule.selector = selector

\* Lines 134-136: styling[declaration.property.value] = declaration.value
RECURSIVE Declared(_, _)
Declared(styling, declarations) ==
    IF declarations = <<>> THEN styling
    ELSE Declared(Put(styling, Head(declarations).property.value, Head(declarations).value),
                  Tail(declarations))

\* StyleSheet.styling: the rules are gone through in their order, and the
\* declarations of a rule that matches are set in the styling
RECURSIVE styling(_, _, _)
styling(rules, selector, acc) ==
    IF rules = <<>> THEN acc
    ELSE LET rule == Head(rules)
         IN  styling(Tail(rules), selector,
                     IF matches(rule, selector) /\ rule.styling.type = "DECLARATION_LIST"
                     THEN Declared(acc, rule.styling.value)
                     ELSE acc)

\* StyleSheet.style(selector)
style(rules, selector) == styling(rules, selector, EmptyStyle)

\* MapFeature: the style id and the models of a feature with an annotation
MapFeature(annotation) ==
    IF annotation = NoAnn THEN [annotated |-> FALSE, models |-> <<>>]
    ELSE [annotated |-> TRUE,
          styleId |-> <<"#">> \o (IF "id" \in DOMAIN annotation
                               THEN annotation.id ELSE Undefined),
          models |-> annotation.models]

NoFeature == [none |-> TRUE]
NoEntity == [none |-> TRUE]

\* Entity.style, lines 106-112: the styles of the part_of models are merged
\* first, then those of the is_a models
Supers(entity) == entity.part_of \o entity.is_a

\* The style of the entity's own rules merged before those of its superclasses
OwnStyleFirst(styled, entity, rules) ==
    merge(style(rules, <<".">> \o entity.id), styled)

\* Entity.style, line 114: the style of the entity's own rules is merged last
OwnStyle(styled, entity, rules) ==
    merge(styled, style(rules, <<".">> \o entity.id))

\* The style of the feature's id merged before those of its models
IdStyleFirst(styled, f, rules) ==
    IF "styleId" \in DOMAIN f THEN merge(style(rules, f.styleId), styled) ELSE styled

\* StyleSheet.featureStyle: the style of the rules for the feature's id is
\* merged after the styles of its models
IdStyle(styled, f, rules) ==
    IF "styleId" \in DOMAIN f THEN merge(styled, style(rules, f.styleId)) ELSE styled

\* A call of Entity.style or of featureStyle that is under way: the models
\* whose styles are still to be merged, and the style merged so far
Frame(entity, pending) == [entity |-> entity, pending |-> pending, style |-> EmptyStyle]

Top == stack[Len(stack)]

WithTop(frame) == [stack EXCEPT ![Len(stack)] = frame]

Range(s) == {s[i] : i \in 1..Len(s)}

\* A walk that asks for the style of every model it comes to
NeverSkipped(model, seen) == FALSE

\* StyleSheet.modelStyle: a model the query has been to already adds nothing
Skipped(model, seen) == normaliseKey(model) \in Range(seen)

\* StyleSheet.featureStyle(feature), up to its first call of modelStyle
featureStyle(f) ==
    /\ stylePc \in {"loading", "done"}
    /\ tableLoaded
    /\ feature' = f
    /\ stack' = <<Frame(NoEntity, f.models)>>
    /\ visits' = <<>>
    /\ resolved' = NoStyle
    /\ stylePc' = "walking"

\* StyleSheet.modelStyle(model), for the next model of the call under way: the
\* style of an entity is Entity.style, and a model the table does not have
\* has the style of its own rules
modelStyle ==
    /\ stylePc = "walking"
    /\ Top.pending # <<>>
    /\ LET model == Head(Top.pending)
           rest == [Top EXCEPT !.pending = Tail(@)]
           got == getEntity(entities, model)
       IN  IF Skipped(model, visits)
           THEN stack' = WithTop(rest) /\ UNCHANGED visits
           ELSE /\ visits' = Append(visits, normaliseKey(model))
                /\ stack' =
                     IF got.found
                     THEN Append(WithTop(rest), Frame(got.entity, Supers(got.entity)))
                     ELSE WithTop([rest EXCEPT !.style =
                                        merge(@, style(styleRules, <<".">> \o model))])
    /\ UNCHANGED <<feature, resolved, stylePc>>

\* Entity.style returns: its style is merged into the style of the caller
EntityStyled ==
    /\ stylePc = "walking"
    /\ Top.pending = <<>>
    /\ Len(stack) > 1
    /\ LET returned == OwnStyle(Top.style, Top.entity, styleRules)
           caller == stack[Len(stack) - 1]
       IN  stack' = Append(SubSeq(stack, 1, Len(stack) - 2),
                           [caller EXCEPT !.style = merge(@, returned)])
    /\ UNCHANGED <<feature, visits, resolved, stylePc>>

\* featureStyle returns
FeatureStyled ==
    /\ stylePc = "walking"
    /\ Top.pending = <<>>
    /\ Len(stack) = 1
    /\ resolved' = IdStyle(Top.style, feature, styleRules)
    /\ stack' = <<>>
    /\ stylePc' = "done"
    /\ UNCHANGED <<feature, visits>>

---------------------------------------------------------------------------
(* The ontology tables, stylesheets and features of the style queries      *)

ClassA == <<"U", "B", "E", "R", "O", "N", "_", "0", "0", "0", "0", "0", "0", "1">>
ClassB == <<"U", "B", "E", "R", "O", "N", "_", "0", "0", "0", "0", "0", "0", "2">>
ClassC == <<"F", "M", "A", ":", "3">>
\* ClassB as a CURIE
CurieB == <<"U", "B", "E", "R", "O", "N", ":", "0", "0", "0", "0", "0", "0", "2">>

Term(part_of, is_a) == [label |-> "term", part_of |-> part_of, is_a |-> is_a]

\* A has both kinds of superclass
BothTable ==
    Put(Put(Put(EmptyMap, ClassA, Term(<<ClassB>>, <<ClassC>>)),
            ClassB, Term(<<>>, <<>>)), ClassC, Term(<<>>, <<>>))

\* A and B are part of each other, and C is a superclass of A by two hops
CycleTable ==
    Put(Put(Put(EmptyMap, ClassA, Term(<<ClassB>>, <<>>)),
            ClassB, Term(<<ClassA>>, <<ClassC>>)), ClassC, Term(<<>>, <<>>))

\* A is part of itself, and B is not in the table
SelfTable == Put(EmptyMap, ClassA, Term(<<ClassA>>, <<ClassB>>))

\* C is a superclass of A by two hops, and B is written as a CURIE
CurieTable ==
    Put(Put(Put(EmptyMap, ClassA, Term(<<CurieB>>, <<>>)),
            CurieB, Term(<<>>, <<ClassC>>)), ClassC, Term(<<>>, <<>>))

StyleTables == {BothTable, CycleTable, SelfTable, CurieTable}

Selectors == { <<".">> \o ClassA, <<".">> \o ClassB, <<".">> \o ClassC, <<"#", "f">> }

DeclarationLists ==
    { <<Declaration("color", "red")>>,
      <<Declaration("color", "blue"), Declaration("opacity", "half")>> }

Blocks ==
    {QualifiedRule(<<s>>, d) : s \in Selectors, d \in DeclarationLists}
        \cup {QualifiedRule(<< <<".">> \o ClassA, <<".">> \o ClassB >>, <<Declaration("color", "red")>>),
              QualifiedRule(<< <<"#">> \o ClassB >>, <<Declaration("opacity", "full")>>)}

WithMalformed(t, i) == SubSeq(t, 1, i) \o <<Malformed>> \o SubSeq(t, i + 1, Len(t))

\* The texts of stylesheets of at most n rule blocks: well formed, or with
\* one malformed block besides
CssTexts(n) ==
    SeqsUpTo(Blocks, n)
        \cup UNION {{WithMalformed(t, i) : i \in 0..Len(t)} : t \in SeqsUpTo(Blocks, n)}

\* The annotations of the features styled
StyleAnnotations ==
    { [id |-> <<"f">>, models |-> <<ClassA>>],
      [id |-> <<"f">>, models |-> <<ClassC>>],
      NoAnn }


---------------------------------------------------------------------------
(* The features of a layer are given their feature state when the layer   *)
(* is added to the map (stylesheet.js)                                     *)

\* feature.annotationError and the like: a property an object does not
\* have is undefined, which is not true
Truthy(object, property) ==
    property \in DOMAIN object /\ object[property] = TRUE

\* MapboxStyleLayers constructor, lines 302-307, for one feature
FeatureStateSet(fm, featureId, mapFeature) ==
    IF Truthy(mapFeature, "annotated")
    THEN IF Truthy(mapFeature, "annotationError")
         THEN setFeatureState(setFeatureState(fm, featureId, "annotated"),
                              featureId, "annotation-error")
         ELSE setFeatureState(fm, featureId, "annotated")
    ELSE fm

\* LayerManager.addLayer, for the features of the layers of a map
RECURSIVE LayerFeaturesAdded(_, _)
LayerFeaturesAdded(fm, fs) ==
    IF fs = <<>> THEN fm
    ELSE LayerFeaturesAdded(
            FeatureStateSet(fm, Head(fs),
                MapFeature(IF getAnnotation(fm, Head(fs)).found
                           THEN getAnnotation(fm, Head(fs)).ann ELSE NoAnn)),
            Tail(fs))

\* The map when its layers were added: every feature has a state
LayersAdded(fm) ==
    LayerFeaturesAdded([fm EXCEPT !.states = [f \in Features |-> {}]],
                       Ascending(Features))
---------------------------------------------------------------------------
(* StyleSheet and PropertiesMap of features.js: the properties the rules   *)
(* declare for each selector, and the patterns they have the map load      *)

\* A declaration and a rule of ast.toDeepJSON()
JsonDeclaration(property, value) == [property |-> property, value |-> value]

\* An identifier, its value held as the sequence of its one token
Ident(name) == [type |-> "ID", value |-> <<name>>]

\* The value of `pattern: id 'path'`
PatternValue(id, quoted) == [type |-> "SEQUENCE", value |-> <<id, quoted>>]

AtRule == [type |-> "AT_RULE"]

\* String.prototype.slice(from, to), to counted from the end
slice(s, from, to) == SubSeq(s, from + 1, Len(s) + to)

\* FlatMap.addPattern: the image of the url is loaded and added to the map
\* under the id
addPattern(images, rulesUrl, id, path) ==
    Append(images,
           [id |-> id,
            url |-> IF path # <<>> /\ Head(path) = "/"
                    THEN [base |-> "map", path |-> path]
                    ELSE [base |-> rulesUrl, path |-> path]])

\* PropertiesMap.set, on the properties of a selector and the images added
PropertiesSet(st, rulesUrl, declaration) ==
    LET property == declaration.property
        value == declaration.value
    IN  IF property = "pattern"
        THEN IF value.type = "SEQUENCE" /\ Len(value.value) = 2
             THEN [properties |-> Put(st.properties, property, value.value[1]),
                   images |-> addPattern(st.images, rulesUrl, value.value[1],
                                         slice(value.value[2], 1, -1))]
             ELSE st
        ELSE [st EXCEPT !.properties = Put(@, property, value)]

RECURSIVE PropertiesSetAll(_, _, _)
PropertiesSetAll(st, rulesUrl, declarationList) ==
    IF declarationList = <<>> THEN st
    ELSE PropertiesSetAll(PropertiesSet(st, rulesUrl, Head(declarationList)),
                          rulesUrl, Tail(declarationList))

\* StyleSheet.addDeclarations_
addDeclarations_(sheet, rulesUrl, selector, declarationList) ==
    LET properties == IF selector \in DOMAIN sheet.rulesMap
                      THEN sheet.rulesMap[selector] ELSE EmptyMap
        set == PropertiesSetAll([properties |-> properties, images |-> sheet.images],
                                rulesUrl, declarationList)
    IN  [rulesMap |-> Put(sheet.rulesMap, selector, set.properties),
         images |-> set.images]

RECURSIVE AddSelectors(_, _, _, _)
AddSelectors(sheet, url, selectors, declarations) ==
    IF selectors = <<>> THEN sheet
    ELSE AddSelectors(addDeclarations_(sheet, url, Head(selectors), declarations),
                      url, Tail(selectors), declarations)

\* The loop of addStyleRules_ (features.js) over the rules of the stylesheet
RECURSIVE AddRules(_, _, _)
AddRules(sheet, url, rules) ==
    IF rules = <<>> THEN sheet
    ELSE LET rule == Head(rules)
         IN  AddRules(IF rule.type = "QUALIFIED_RULE" /\ rule.value.type = "DECLARATION_LIST"
                      THEN AddSelectors(sheet, url, rule.selectors, rule.value.value)
                      ELSE sheet,
                      url, Tail(rules))

\* The most images the stylesheets loaded have the map add
MaxImages == 3

\* StyleSheet.fetchStyleRules_ (features.js), the text being the response:
\* addStyleRules_(responseUrl, text)
fetchStyleRules_(url, cssText) ==
    /\ IF Blank(cssText)
       THEN UNCHANGED <<rulesMap, registered, loadThrew>>
       ELSE IF ~CssParse(cssText).ok
       THEN loadThrew' = TRUE /\ UNCHANGED <<rulesMap, registered>>
       ELSE LET rules == CssParse(cssText)
                sheet == IF rules.value.type = "STYLESHEET"
                         THEN AddRules([rulesMap |-> rulesMap, images |-> registered],
                                       url, rules.value.value)
                         ELSE [rulesMap |-> rulesMap, images |-> registered]
            IN  /\ Len(sheet.images) <= MaxImages
                /\ rulesMap' = sheet.rulesMap
                /\ registered' = sheet.images
                /\ loadThrew' = FALSE
    /\ UNCHANGED <<styleRules, sequence>>

\* The stylesheets of the patterns
PatternSelectors == { <<".", "a">>, <<".", "b">> }

PatternDeclarations ==
    { <<JsonDeclaration("pattern", PatternValue("dots", <<"'", "d", "o", "t", "s", ".", "p", "n", "g", "'">>))>>,
      <<JsonDeclaration("pattern", PatternValue("lines", <<"'", "/", "l", "i", "n", "e", "s", ".", "p", "n", "g", "'">>)),
        JsonDeclaration("color", Ident("red"))>>,
      <<JsonDeclaration("pattern", Ident("dots"))>> }

PatternBlocks ==
    {QualifiedRule(<<s>>, d) : s \in PatternSelectors, d \in PatternDeclarations}
        \cup {QualifiedRule(<< <<".", "a">>, <<".", "b">> >>,
                            <<JsonDeclaration("pattern", PatternValue("dots", <<"'", "d", "o", "t", "s", ".", "p", "n", "g", "'">>))>>),
              AtRule}

\* The most rule blocks a stylesheet has, besides one that is malformed
MaxBlocks == 2

PatternTexts ==
    SeqsUpTo(PatternBlocks, MaxBlocks)
        \cup UNION {{WithMalformed(t, i) : i \in 0..Len(t)} : t \in SeqsUpTo(PatternBlocks, MaxBlocks)}

StylesheetUrls == {"default"}


---------------------------------------------------------------------------
(* Paint properties (styling.js).  A paint property is a Mapbox style      *)
(* expression, evaluated for a feature from its feature state and the zoom *)
(* level of the map.  A feature state is the set of the flags that are set *)
(* to true on the feature: ['boolean', ['feature-state', flag], false] is  *)
(* true for these flags and false for every other one.  Opacities and      *)
(* widths are in tenths (0.5 is 5), so that they stay integers.            *)

Literal(output) == [op |-> "literal", branches |-> <<>>, fallback |-> output]
Case(branches, fallback) == [op |-> "case", branches |-> branches, fallback |-> fallback]
When(flag, output) == [flag |-> flag, output |-> output]

\* ['case', condition, output, ..., fallback]: the output of the first
\* condition that is true, the fallback when there is none
RECURSIVE FirstTrue(_, _, _)
FirstTrue(branches, fallback, featureState) ==
    IF branches = <<>> THEN fallback
    ELSE IF Head(branches).flag \in featureState THEN Head(branches).output
    ELSE FirstTrue(Tail(branches), fallback, featureState)

Evaluate(expression, featureState) ==
    FirstTrue(expression.branches, expression.fallback, featureState)

PAINT_STYLES ==
    [background_opacity |-> 3, layer_background_opacity |-> 5,
     border_stroke_width |-> 5, line_stroke_opacity |-> 0,
     line_stroke_width |-> 5]

borderColourHighlightedFirst(layerActive, annotating) ==
    Case(<<When("highlighted", "green"),
           When("annotation-error", "pink")>>, "blue")

borderColour(layerActive, annotating) ==
    Case(<<When("annotation-error", "pink"),
           When("highlighted", "green")>>, "blue")

borderOpacity(layerActive, annotating) ==
    IF layerActive
    THEN IF annotating THEN Literal(10)
         ELSE Case(<<When("selected", 10),
                     When("highlighted", 10),
                     When("annotated", 10)>>, 0)
    ELSE Literal(0)

lineColour(layerActive, annotating) ==
    Case(<<When("annotation-error", "pink"),
           When("highlighted", "green")>>, "red")

lineOpacity(layerActive, annotating) ==
    IF layerActive
    THEN IF annotating THEN Literal(10)
         ELSE Case(<<When("annotation-error", 8),
                     When("highlighted", 4),
                     When("selected", 0),
                     When("annotated", 0)>>, 0)
    ELSE Literal(0)

\* ["let", "linewidth", [case ...], ["interpolate", ["exponential", 1.4],
\* ["zoom"], 3, ["var", "linewidth"], 10, ["*", 10, ["var", "linewidth"]]]]
Scaled(linewidth) == [op |-> "let", linewidth |-> linewidth]
Unscaled(width) == [op |-> "literal", linewidth |-> Literal(width)]

\* LineWidth.scale
scale(width, annotating) ==
    Scaled(Case(<<When("annotation-error", 4 * width),
                  When("highlighted", 2 * width),
                  When("selected", 3 * width),
                  When("annotated", width)>>,
                IF annotating THEN width ELSE 0))

lineWidth_(width, layerActive, annotating) ==
    IF layerActive THEN scale(width, annotating) ELSE Unscaled(0)

RECURSIVE Power(_, _)
Power(base, exponent) ==
    IF exponent = 0 THEN 1 ELSE base * Power(base, exponent - 1)

\* The stops of the interpolation and its base, 1.4 = 7 / 5
LowZoom == 3
HighZoom == 10
HighFactor == 10
BaseNumerator == 7
BaseDenominator == 5

\* Widths are fractions of this denominator: (7/5)^7 - 1, times 5^7
Denominator ==
    Power(BaseNumerator, HighZoom - LowZoom)
        - Power(BaseDenominator, HighZoom - LowZoom)

\* The exponential interpolation at a zoom level z between the stops is
\* low + (high - low) * (base^(z - 3) - 1) / (base^7 - 1); below the first
\* stop it is the first output, above the last stop the last output
Interpolate(zoomLevel, low, high) ==
    IF zoomLevel <= LowZoom THEN low * Denominator
    ELSE IF zoomLevel >= HighZoom THEN high * Denominator
    ELSE low * Denominator
           + (high - low)
               * (Power(BaseNumerator, zoomLevel - LowZoom)
                      * Power(BaseDenominator, HighZoom - zoomLevel)
                    - Power(BaseDenominator, HighZoom - LowZoom))

\* The width of a line, as a numerator over Denominator
EvaluateWidth(expression, featureState, zoomLevel) ==
    IF expression.op = "let"
    THEN Interpolate(zoomLevel,
                     Evaluate(expression.linewidth, featureState),
                     HighFactor * Evaluate(expression.linewidth, featureState))
    ELSE Evaluate(expression.linewidth, featureState) * Denominator

\* A feature of a layer is painted: its border and, for a line, the line
NoRendering == [featureState |-> {}, layerActive |-> FALSE,
                annotating |-> FALSE, zoom |-> 0]
NoPaint == [borderColour |-> "", lineColour |-> "", borderOpacity |-> 0,
            lineOpacity |-> 0, borderWidth |-> 0, lineWidth |-> 0]

MaxZoom == 11
ZoomLevels == 2..MaxZoom

Renderings ==
    [featureState : SUBSET FlagNames, layerActive : BOOLEAN,
     annotating : BOOLEAN, zoom : ZoomLevels]

Paint ==
    /\ paintPc = "paint"
    /\ painted' =
         [borderColour |->
              Evaluate(borderColour(rendering.layerActive, rendering.annotating),
                       rendering.featureState),
          lineColour |->
              Evaluate(lineColour(rendering.layerActive, rendering.annotating),
                       rendering.featureState),
          borderOpacity |->
              Evaluate(borderOpacity(rendering.layerActive, rendering.annotating),
                       rendering.featureState),
          lineOpacity |->
              Evaluate(lineOpacity(rendering.layerActive, rendering.annotating),
                       rendering.featureState),
          borderWidth |->
              EvaluateWidth(lineWidth_(PAINT_STYLES.border_stroke_width,
                                       rendering.layerActive, rendering.annotating),
                            rendering.featureState, rendering.zoom),
          lineWidth |->
              EvaluateWidth(lineWidth_(PAINT_STYLES.line_stroke_width,
                                       rendering.layerActive, rendering.annotating),
                            rendering.featureState, rendering.zoom)]
    /\ paintPc' = "painted"
    /\ UNCHANGED rendering

---------------------------------------------------------------------------
(* The feature layers of a map and their manager (layers.js).  A           *)
(* MapFeatureLayer is an object with the paint properties of its border    *)
(* and line style layers, which are kept by the Mapbox map.                *)

\* FeatureBorderLayer.style: the paint of a new border style layer
FeatureBorderLayer ==
    [color |-> borderColour(FALSE, FALSE),
     opacity |-> borderOpacity(FALSE, FALSE),
     width |-> lineWidth_(PAINT_STYLES.border_stroke_width, FALSE, FALSE)]

\* FeatureLineLayer.style: the paint of a new line style layer
FeatureLineLayer ==
    [color |-> Literal("green"),
     opacity |-> Literal(10),
     width |-> lineWidth_(PAINT_STYLES.line_stroke_width, FALSE, FALSE)]

\* new MapFeatureLayer(map, layer, features)
MapFeatureLayer(ref, layerId) ==
    [ref |-> ref, id |-> layerId,
     border |-> FeatureBorderLayer, line |-> FeatureLineLayer]

setBorderProperties_(layer, layerActive, annotating) ==
    [layer EXCEPT !.border =
        [color |-> borderColour(layerActive, annotating),
         opacity |-> borderOpacity(layerActive, annotating),
         width |-> lineWidth_(PAINT_STYLES.border_stroke_width, layerActive, annotating)]]

setLineProperties_(layer, layerActive, annotating) ==
    [layer EXCEPT !.line =
        [color |-> lineColour(layerActive, annotating),
         opacity |-> lineOpacity(layerActive, annotating),
         width |-> lineWidth_(PAINT_STYLES.line_stroke_width, layerActive, annotating)]]

\* MapFeatureLayer.activate and deactivate
LayerActivated(layer, annotating) ==
    setLineProperties_(setBorderProperties_(layer, TRUE, annotating), TRUE, annotating)

LayerDeactivated(layer) ==
    setLineProperties_(setBorderProperties_(layer, FALSE, FALSE), FALSE, FALSE)

\* FlatMap.fullLayerId: `${this._instanceId}/${layerId}`
InstanceId == <<"m", "a", "p", "-", "1">>
fullLayerId(layerId) == InstanceId \o <<"/">> \o layerId

\* Array.prototype.indexOf, from 0, and -1 when the element is not there
indexOf(array, element) ==
    IF \E i \in 1..Len(array) : array[i] = element
    THEN (CHOOSE i \in 1..Len(array) :
            /\ array[i] = element
            /\ \A j \in 1..(i - 1) : array[j] # element) - 1
    ELSE -1

\* Array.prototype.splice(index, 1), after delete array[index]
splice(array, index) ==
    SubSeq(array, 1, index) \o SubSeq(array, index + 2, Len(array))

\* The layers of a map description have their own ids, and each is added
\* once, when the map is created (interactions.js)
MaxLayers == 3
LayerNames == <<<<"b", "o", "d", "y">>, <<"b", "r", "a", "i", "n">>, <<"h", "e", "a", "r", "t">>, <<"l", "u", "n", "g", "s">>>>
MapLayerIds == {LayerNames[n] : n \in 1..MaxLayers}

\* What activate and deactivate are called with: the full id of a layer
\* of the map, or something else
FullLayerIds == {fullLayerId(layerId) : layerId \in MapLayerIds} \cup MapLayerIds

\* LayerManager.addLayer
addLayer(layerId) ==
    /\ \A known \in DOMAIN layers : layers[known].id # layerId
    /\ layers' = Put(layers, fullLayerId(layerId),
                     MapFeatureLayer(Cardinality(DOMAIN layers) + 1, layerId))
    /\ UNCHANGED <<activeLayers, activeLayerIds>>

\* LayerManager.activate
activate(id, annotating) ==
    IF id \in DOMAIN layers
    THEN /\ layers' = [layers EXCEPT ![id] = LayerActivated(layers[id], annotating)]
         /\ IF indexOf(activeLayers, layers[id].ref) < 0
            THEN /\ activeLayers' = Append(activeLayers, layers[id].ref)
                 /\ activeLayerIds' = Append(activeLayerIds, layers[id].id)
            ELSE UNCHANGED <<activeLayers, activeLayerIds>>
    ELSE UNCHANGED <<layers, activeLayers, activeLayerIds>>

\* LayerManager.deactivate
deactivateKeepingIds(id) ==
    IF id \in DOMAIN layers
    THEN /\ layers' = [layers EXCEPT ![id] = LayerDeactivated(layers[id])]
         /\ IF indexOf(activeLayers, layers[id].ref) >= 0
            THEN /\ activeLayers' = splice(activeLayers, indexOf(activeLayers, layers[id].ref))
                 /\ activeLayerIds' = activeLayerIds
            ELSE UNCHANGED <<activeLayers, activeLayerIds>>
    ELSE UNCHANGED <<layers, activeLayers, activeLayerIds>>

deactivate(id) ==
    IF id \in DOMAIN layers
    THEN /\ layers' = [layers EXCEPT ![id] = LayerDeactivated(layers[id])]
         /\ IF indexOf(activeLayers, layers[id].ref) >= 0
            THEN /\ activeLayers' = splice(activeLayers, indexOf(activeLayers, layers[id].ref))
                 /\ activeLayerIds' = splice(activeLayerIds, indexOf(activeLayers, layers[id].ref))
            ELSE UNCHANGED <<activeLayers, activeLayerIds>>
    ELSE UNCHANGED <<layers, activeLayers, activeLayerIds>>

---------------------------------------------------------------------------
(* The map manager (flatmap-viewer.js).  Maps are loaded by callers that   *)
(* run interleaved at their awaits; each call of loadMap is followed from  *)
(* await to await.                                                         *)

\* A value no string equals: strings are sequences of single characters
Null == <<"null">>
NoMap == [none |-> TRUE]
NoIndex == <<NoMap>>

\* Strings are compared by their code units; these are the characters of
\* the times of creation, in the order of their codes
CodeOrder == <<"-", "0", "1", "2", "3", "4", "5", "6", "7", "8", "9", ":", "T", "Z">>
CodeOf(c) == CHOOSE i \in 1..Len(CodeOrder) : CodeOrder[i] = c

\* a < b for strings
RECURSIVE Less(_, _)
Less(a, b) ==
    IF b = <<>> THEN FALSE
    ELSE IF a = <<>> THEN TRUE
    ELSE IF Head(a) = Head(b) THEN Less(Tail(a), Tail(b))
    ELSE CodeOf(Head(a)) < CodeOf(Head(b))

\* The loop of latestMap_ over the rest of the index
RECURSIVE LatestFrom(_, _, _, _)
LatestFrom(index, mapDescribes, latestMap, lastCreatedTime) ==
    IF index = <<>> THEN latestMap
    ELSE IF \/ mapDescribes = Head(index).describes
            \/ mapDescribes = Head(index).id
            \/ mapDescribes = Head(index).source
         THEN IF "created" \in DOMAIN Head(index)
              THEN IF Less(lastCreatedTime, Head(index).created)
                   THEN LatestFrom(Tail(index), mapDescribes,
                                   Head(index), Head(index).created)
                   ELSE LatestFrom(Tail(index), mapDescribes,
                                   latestMap, lastCreatedTime)
              ELSE Head(index)
         ELSE LatestFrom(Tail(index), mapDescribes, latestMap, lastCreatedTime)

RECURSIVE firstMap_(_, _)
firstMap_(index, mapDescribes) ==
    IF index = <<>> THEN NoMap
    ELSE IF mapDescribes \in {Head(index).describes, Head(index).id, Head(index).source}
         THEN Head(index)
         ELSE firstMap_(Tail(index), mapDescribes)

latestMap_(index, mapDescribes) == LatestFrom(index, mapDescribes, NoMap, <<>>)

\* An identifier is a string or an object
String(s) == [string |-> s]

lookupMap_(index, identifier) ==
    IF "string" \notin DOMAIN identifier
    THEN IF /\ "source" \in DOMAIN identifier
            /\ latestMap_(index, identifier.source) # NoMap
         THEN latestMap_(index, identifier.source)
         ELSE latestMap_(index, IF "describes" \in DOMAIN identifier
                                THEN identifier.describes ELSE Null)
    ELSE latestMap_(index, identifier.string)

\* utils.Mutex: the caller that is in dispatch, 0 when there is none
Unlocked == 0
NeverLocked(caller) == Unlocked
Locked(caller) == caller

\* A call of loadMap: where it is, what it is for, the map it found,
\* how its promise was settled and the number of the FlatMap it made
NoLoad == [pc |-> "idle", identifier |-> String(<<>>), map |-> NoMap,
           settled |-> "no", number |-> 0]

At(caller, pc) == loads[caller].pc = pc
Goes(caller, pc) == loads' = [loads EXCEPT ![caller].pc = pc]

\* loadMap, to the dispatch of ensureInitialised_ in findMap_
loadMap(caller, identifier) ==
    /\ At(caller, "idle")
    /\ loads' = [loads EXCEPT ![caller] =
                    [NoLoad EXCEPT !.pc = "dispatch", !.identifier = identifier]]
    /\ UNCHANGED <<serverIndex, mapIndex, initialised, initialisingMutex,
                   mapNumber, fetches>>

ensureInitialisedAgain(caller) ==
    /\ At(caller, "dispatch")
    /\ initialisingMutex = Unlocked
    /\ initialisingMutex' = Locked(caller)
    /\ fetches' = fetches + 1
    /\ Goes(caller, "fetch")
    /\ UNCHANGED <<serverIndex, mapIndex, initialised, mapNumber>>

\* The function ensureInitialised_ dispatches, run when no other caller
\* is in the mutex: it asks for the index unless the manager is initialised
ensureInitialised_(caller) ==
    /\ At(caller, "dispatch")
    /\ initialisingMutex = Unlocked
    /\ IF ~initialised
       THEN /\ initialisingMutex' = Locked(caller)
            /\ fetches' = fetches + 1
            /\ Goes(caller, "fetch")
       ELSE /\ Goes(caller, "initialised")
            /\ UNCHANGED <<initialisingMutex, fetches>>
    /\ UNCHANGED <<serverIndex, mapIndex, initialised, mapNumber>>

\* loadJSON('') is settled: with the index, or it fails, and then
\* ensureInitialised_ rejects and the promise of findMap_ is never settled
IndexLoaded(caller, loaded) ==
    /\ At(caller, "fetch")
    /\ initialisingMutex' = Unlocked
    /\ IF loaded
       THEN /\ mapIndex' = serverIndex
            /\ initialised' = TRUE
            /\ Goes(caller, "initialised")
       ELSE /\ Goes(caller, "stalled")
            /\ UNCHANGED <<mapIndex, initialised>>
    /\ UNCHANGED <<serverIndex, mapNumber, fetches>>

\* findMap_ resolves with the map looked up, and loadMap goes on: with no
\* map it rejects, and the read of map.id throws
findMap_(caller) ==
    /\ At(caller, "initialised")
    /\ loads' = [loads EXCEPT ![caller] =
          IF lookupMap_(mapIndex, loads[caller].identifier) = NoMap
          THEN [loads[caller] EXCEPT !.pc = "done", !.settled = "Unknown map"]
          ELSE [loads[caller] EXCEPT
                    !.pc = "load",
                    !.map = lookupMap_(mapIndex, loads[caller].identifier)]]
    /\ UNCHANGED <<serverIndex, mapIndex, initialised, initialisingMutex,
                   mapNumber, fetches>>

\* What the server answers for the options of a map: options with the id
\* of the map, or with another id
Responses == {"loaded", "wrong ID"}

\* `${n}` for a number that is not negative
RECURSIVE Decimal(_)
Decimal(n) ==
    IF n < 10 THEN <<<<"0", "1", "2", "3", "4", "5", "6", "7", "8", "9">>[n + 1]>>
    ELSE Decimal(n \div 10) \o <<<<"0", "1", "2", "3", "4", "5", "6", "7", "8", "9">>[(n % 10) + 1]>>

\* FlatMap constructor: `${mapDescription.id}-${mapDescription.number}`
instanceId(mapDescription) ==
    mapDescription.id \o <<"-">> \o Decimal(mapDescription.number)

MapLoadedUncounted(caller, response) ==
    /\ At(caller, "load")
    /\ IF response = "loaded"
       THEN loads' = [loads EXCEPT ![caller].pc = "done",
                                   ![caller].settled = "resolved",
                                   ![caller].number = mapNumber + 1]
       ELSE loads' = [loads EXCEPT ![caller].pc = "done",
                                   ![caller].settled = response]
    /\ UNCHANGED <<serverIndex, mapIndex, initialised, initialisingMutex,
                   mapNumber, fetches>>

\* The rest of loadMap: the FlatMap is made and shown
MapLoaded(caller, response) ==
    /\ At(caller, "load")
    /\ IF response = "loaded"
       THEN /\ mapNumber' = mapNumber + 1
            /\ loads' = [loads EXCEPT ![caller].pc = "done",
                                      ![caller].settled = "resolved",
                                      ![caller].number = mapNumber + 1]
       ELSE /\ loads' = [loads EXCEPT ![caller].pc = "done",
                                      ![caller].settled = response]
            /\ UNCHANGED mapNumber
    /\ UNCHANGED <<serverIndex, mapIndex, initialised, initialisingMutex, fetches>>

\* The callers, the maps a server has, and what is asked for
NumCallers == 2
Callers == 1..NumCallers

Human == <<"N", "C", "B", "I", "T", "a", "x", "o", "n", ":", "9", "6", "0", "6">>
Rat == <<"N", "C", "B", "I", "T", "a", "x", "o", "n", ":", "1", "0", "1", "1", "4">>
Pptx == <<"H", "u", "m", "a", "n", "_", "B", "o", "d", "y", ".", "p", "p", "t", "x">>

MapEntries ==
    { [id |-> <<"h", "u", "m", "a", "n", "V", "1">>, describes |-> Human, source |-> Pptx,
       created |-> <<"2", "0", "1", "9", "-", "0", "5", "-", "0", "1", "T", "1", "0", ":", "0", "0">>],
      [id |-> <<"h", "u", "m", "a", "n", "V", "2">>, describes |-> Human, source |-> <<"H", "u", "m", "a", "n", "_", "2", ".", "p", "p", "t", "x">>,
       created |-> <<"2", "0", "1", "9", "-", "1", "1", "-", "2", "0", "T", "0", "9", ":", "3", "0">>],
      [id |-> <<"h", "u", "m", "a", "n", "V", "0">>, describes |-> Human, source |-> Pptx],
      [id |-> <<"r", "a", "t", "V", "1">>, describes |-> Rat, source |-> <<"R", "a", "t", ".", "p", "p", "t", "x">>,
       created |-> <<"2", "0", "1", "9", "-", "0", "5", "-", "0", "1", "T", "1", "0", ":", "0", "0">>] }

MaxMaps == 2

RECURSIVE IndexesOf(_, _)
IndexesOf(entries, n) ==
    {<<>>} \cup
    (IF n = 0 THEN {}
     ELSE UNION {{<<entry>> \o rest : rest \in IndexesOf(entries \ {entry}, n - 1)}
                    : entry \in entries})

MapIndexes == IndexesOf(MapEntries, MaxMaps)

Identifiers ==
    { String(<<"h", "u", "m", "a", "n", "V", "1">>), String(Human), String(<<"p", "i", "g", "V", "1">>),
      [source |-> Pptx],
      [source |-> <<"P", "i", "g", ".", "p", "p", "t", "x">>, describes |-> Rat] }
---------------------------------------------------------------------------
(* Properties of the annotation indexes *)

\* The map as the step leaves it
MapAfter ==
    [heap |-> heap', idToAnnotation |-> idToAnnotation',
     urlToAnnotation |-> urlToAnnotation', metadata |-> metadata',
     posted |-> last'.posted, threw |-> last'.threw]

\* The feature the dialog is open on has an annotation stored
EditedIsAnnotated == currentAnn.featureId \in DOMAIN idToAnnotation

\* The url the annotation of the edited feature is stored under
PreviousUrl == heap[idToAnnotation[currentAnn.featureId]].url

\* C1: Save of an empty text on a feature that has an annotation removes the
\* annotation from both indexes: afterwards getAnnotation(featureId) returns
\* nothing and featureIdForUrl(previous url) does not return the feature.
C1_DeletionRemovesBothEntries ==
    [][(dialogClose_("Save", <<>>) /\ EditedIsAnnotated)
            => /\ ~getAnnotation(MapAfter, currentAnn.featureId).found
               /\ featureIdForUrl(MapAfter, PreviousUrl) # currentAnn.featureId]_vars

\* The url of ann is held by the annotation of a feature other than featureId
HeldByAnother(fm, featureId, ann) ==
    LET url == annotationUrl(ann)
    IN  /\ url \in DOMAIN fm.urlToAnnotation
        /\ LET holder == fm.heap[fm.urlToAnnotation[url]].featureId
           IN  /\ holder # featureId
               /\ holder \in DOMAIN fm.idToAnnotation
               /\ fm.idToAnnotation[holder] = fm.urlToAnnotation[url]

\* The dialog is saved with a text that parses and differs from the text of the
\* edited annotation, and whose url another feature's annotation holds
SavesDuplicate(t) ==
    /\ dialogClose_("Save", t)
    /\ t # <<>>
    /\ "error" \notin DOMAIN ParsedText[t]
    /\ currentAnn.text # t
    /\ HeldByAnother(ThisMap, currentAnn.featureId, NewAnn(ParsedText[t]))

\* C2: a save for feature F whose url the annotation of another feature G of
\* the layer holds is rejected: the dialog is shown again, setAnnotation is not
\* called (nothing is sent to the server), and the indexes and the metadata
\* are as they were.
C2_DuplicateRejected ==
    [][\A t \in DialogTexts :
            SavesDuplicate(t)
                => /\ dialog' = "open"
                   /\ ~last'.posted
                   /\ UNCHANGED flatmapVars]_vars

\* The annotation stored for a feature
Stored(f) == heap[idToAnnotation[f]]

\* C3: no two features of the feature-id index hold annotations without an
\* error that have the same url {source}/{layer}/{id}.
C3_UrlsUnique ==
    \A f, g \in DOMAIN idToAnnotation :
        (/\ f # g
         /\ "error" \notin DOMAIN Stored(f)
         /\ "error" \notin DOMAIN Stored(g))
            => annotationUrl(Stored(f)) # annotationUrl(Stored(g))

\* C4: every record of the url index is the record the feature-id index holds
\* under its featureId and is keyed by its url, and every record of the
\* feature-id index is in the url index under its url.
C4_IndexesConsistent ==
    /\ \A url \in DOMAIN urlToAnnotation :
            LET ann == heap[urlToAnnotation[url]]
            IN  /\ ann.featureId \in DOMAIN idToAnnotation
                /\ idToAnnotation[ann.featureId] = urlToAnnotation[url]
                /\ annotationUrl(ann) = url
    /\ \A f \in DOMAIN idToAnnotation :
            /\ annotationUrl(Stored(f)) \in DOMAIN urlToAnnotation
            /\ urlToAnnotation[annotationUrl(Stored(f))] = idToAnnotation[f]

---------------------------------------------------------------------------
(* Properties of the parser *)

\* The grammar accepts the text
Accepted(t) == parse(t).ok

\* C5: the record parseAnnotation returns has exactly one of id and error: id
\* if and only if the grammar accepted the text, error if and only if it did not.
C5_IdOrError ==
    parsePc = "done"
        => /\ ("id" \in DOMAIN result) <=> Accepted(text)
           /\ ("error" \in DOMAIN result) <=> ~Accepted(text)
           /\ ("id" \in DOMAIN result) # ("error" \in DOMAIN result)

\* C5 happens: a label without a text is rejected, and the record has an
\* error and no id
C5_Witness ==
    /\ parsePc = "done"
    /\ text = <<"#", "n", "1", " ", "l", "a", "b", "e", "l", "(", ")">>
    /\ ~Accepted(text)
    /\ "error" \in DOMAIN result
    /\ "id" \notin DOMAIN result

IdentifierChars == LowerCase \cup UpperCase \cup Digit \cup {".", "/", ":", "-", "_"}

\* The identifier that follows the first character of t: the longest run of
\* identifier characters from the second character on
LeadingIdentifier(t) ==
    LET end == CHOOSE n \in 1..Len(t) :
                    /\ \A i \in 2..n : t[i] \in IdentifierChars
                    /\ n = Len(t) \/ t[n + 1] \notin IdentifierChars
    IN  SubSeq(t, 2, end)

\* C6: for a text the grammar accepts, the record has no error, its id is the
\* identifier after the leading '#', and its text is the text parsed.
C6_IdOfAccepted ==
    (parsePc = "done" /\ Accepted(text))
        => /\ "error" \notin DOMAIN result
           /\ text[1] = "#"
           /\ "id" \in DOMAIN result
           /\ result.id = LeadingIdentifier(text)
           /\ result.text = text

\* C6 happens: an accepted text with clauses whose identifier has several characters
C6_Witness ==
    /\ parsePc = "done"
    /\ ~given.raw
    /\ given.id = <<"a", "-", "b", ".", "c">>
    /\ Len(given.clauses) = 2
    /\ Accepted(text)
    /\ result.id = <<"a", "-", "b", ".", "c">>

\* The values written for a clause name, in the order of the text
RECURSIVE ValuesFor(_, _)
ValuesFor(name, clauses) ==
    IF clauses = <<>> THEN <<>>
    ELSE (IF Head(clauses).name = name THEN Head(clauses).values ELSE <<>>)
            \o ValuesFor(name, Tail(clauses))

ClauseNames(clauses) == {clauses[i].name : i \in 1..Len(clauses)}

Occurrences(name, clauses) == Cardinality({i \in 1..Len(clauses) : clauses[i].name = name})

\* C7: for an accepted text with a models clause and a label(L) clause, models
\* is the list of the ontology ids written, properties.models is the same
\* list, and properties.label is the one-element list [L].
C7_ModelsAndLabel ==
    (/\ parsePc = "done"
     /\ ~given.raw
     /\ Accepted(text)
     /\ Occurrences(<<"m", "o", "d", "e", "l", "s">>, given.clauses) = 1
     /\ Occurrences(<<"l", "a", "b", "e", "l">>, given.clauses) = 1)
        => /\ result.models = ValuesFor(<<"m", "o", "d", "e", "l", "s">>, given.clauses)
           /\ "properties" \in DOMAIN result
           /\ <<"m", "o", "d", "e", "l", "s">> \in DOMAIN result.properties
           /\ result.properties[<<"m", "o", "d", "e", "l", "s">>] = ValuesFor(<<"m", "o", "d", "e", "l", "s">>, given.clauses)
           /\ <<"l", "a", "b", "e", "l">> \in DOMAIN result.properties
           /\ result.properties[<<"l", "a", "b", "e", "l">>] = ValuesFor(<<"l", "a", "b", "e", "l">>, given.clauses)

\* C8: for an accepted text, properties has the clause names of the text, and
\* each name has all the values written for it in the order of the text.
C8_PropertiesCollected ==
    (/\ parsePc = "done"
     /\ ~given.raw
     /\ Accepted(text)
     /\ given.clauses # <<>>)
        => /\ "properties" \in DOMAIN result
           /\ DOMAIN result.properties = ClauseNames(given.clauses)
           /\ \A name \in ClauseNames(given.clauses) :
                    result.properties[name] = ValuesFor(name, given.clauses)

\* C9: for a text the grammar rejects, parseAnnotation returns a record (it
\* does not throw) whose error is the message of the syntax error, which has
\* no id and no properties, and whose models is empty.
C9_RejectedText ==
    (parsePc = "done" /\ ~Accepted(text))
        => /\ "thrown" \notin DOMAIN result
           /\ "error" \in DOMAIN result
           /\ result.error = SyntaxErrorMessage
           /\ "id" \notin DOMAIN result
           /\ "properties" \notin DOMAIN result
           /\ "models" \in DOMAIN result
           /\ result.models = <<>>
           /\ result.text = text

\* C9 happens: a text with a property name the grammar does not know
C9_Witness ==
    /\ parsePc = "done"
    /\ text = <<"#", "n", "1", " ", "f", "o", "o", "(", "x", ")">>
    /\ ~Accepted(text)
    /\ "error" \in DOMAIN result
    /\ result.models = <<>>

---------------------------------------------------------------------------
(* Properties of the key normalisation *)

StartsWith(s, prefix) == Len(s) >= Len(prefix) /\ SubSeq(s, 1, Len(prefix)) = prefix

\* The part of s after a prefix
After(s, prefix) == SubSeq(s, Len(prefix) + 1, Len(s))

IsDigits(s) == \A i \in 1..Len(s) : s[i] \in Digit

\* n with zeros to its left, seven characters in all
ZeroPadded(n) == [i \in 1..7 |-> IF i <= 7 - Len(n) THEN "0" ELSE n[i - (7 - Len(n))]]

\* C10: normaliseKey maps 'UBERON:' + N and 'UBERON_' + N, N of at most 7
\* digits, to 'UBERON_' and N padded with zeros to 7 digits, returns a key of
\* another prefix as it is, and normalising a normalised key changes nothing.
C10_NormaliseKey ==
    keyPc = "done"
        => /\ \A prefix \in {<<"U", "B", "E", "R", "O", "N", ":">>, <<"U", "B", "E", "R", "O", "N", "_">>} :
                (/\ StartsWith(key, prefix)
                 /\ IsDigits(After(key, prefix))
                 /\ Len(After(key, prefix)) <= 7)
                    => normalised = <<"U", "B", "E", "R", "O", "N", "_">> \o ZeroPadded(After(key, prefix))
           /\ (~StartsWith(key, <<"U", "B", "E", "R", "O", "N", ":">>) /\ ~StartsWith(key, <<"U", "B", "E", "R", "O", "N", "_">>))
                    => normalised = key
           /\ renormalised = normalised

\* C10 happens: 'UBERON:388' is normalised to 'UBERON_0000388'
C10_Witness ==
    /\ keyPc = "done"
    /\ key = <<"U", "B", "E", "R", "O", "N", ":", "3", "8", "8">>
    /\ normalised = <<"U", "B", "E", "R", "O", "N", "_", "0", "0", "0", "0", "3", "8", "8">>
    /\ renormalised = <<"U", "B", "E", "R", "O", "N", "_", "0", "0", "0", "0", "3", "8", "8">>

---------------------------------------------------------------------------
(* Claims about the table of entities                                      *)

RECURSIVE WithoutLeadingZeros(_)
WithoutLeadingZeros(digits) ==
    IF digits # <<>> /\ Head(digits) = "0" THEN WithoutLeadingZeros(Tail(digits))
    ELSE digits

\* The identifier a key is a written form of: an UBERON key with either
\* separator and any leading zeros, or the key itself
Identifier(k) ==
    IF StartsWith(k, <<"U", "B", "E", "R", "O", "N", ":">>) \/ StartsWith(k, <<"U", "B", "E", "R", "O", "N", "_">>)
    THEN [ontology |-> "UBERON", number |-> WithoutLeadingZeros(After(k, PrefixLength))]
    ELSE [key |-> k]

\* C11: once the table is loaded, looking up a key of the table, or another
\* written form of the same identifier, returns the entity loaded for that
\* key, and the entities are stored under their canonical keys.
C11_LookupReturnsLoadedEntity ==
    /\ \A k \in DOMAIN entities : k = normaliseKey(k)
    /\ lookedUp # NoLookup =>
         \A k \in DOMAIN entities :
            Identifier(k) = Identifier(lookedUp.key) =>
                /\ lookedUp.got.found
                /\ lookedUp.got.entity = entities[k]

---------------------------------------------------------------------------
(* Claims about the style of a feature                                     *)

Properties == {"color", "opacity"}

\* The values the rules of a selector declare for a property
ValuesOf(selector, p) ==
    {styleRules[i].styling.value[d].value :
        <<i, d>> \in {<<i, d>> \in (1..Len(styleRules)) \X (1..2) :
                        /\ styleRules[i].selector = selector
                        /\ d <= Len(styleRules[i].styling.value)
                        /\ styleRules[i].styling.value[d].property.value = p}}

\* The style of a feature with one model has been resolved
StyledWithModel == stylePc = "done" /\ Len(feature.models) = 1

OwnClass == feature.models[1]

\* The values the rules for the feature's own id declare for a property
IdValues(p) == IF "styleId" \in DOMAIN feature THEN ValuesOf(feature.styleId, p) ELSE {}

\* The direct superclasses the table has for a class
PartOf(class) == IF class \in DOMAIN entities THEN Range(entities[class].part_of) ELSE {}
IsA(class) == IF class \in DOMAIN entities THEN Range(entities[class].is_a) ELSE {}

\* The position of a rule of a selector that declares the property
Positions(selector, p) ==
    {styleRules[i].position : i \in {j \in 1..Len(styleRules) :
        /\ styleRules[j].selector = selector
        /\ \E d \in 1..Len(styleRules[j].styling.value) :
                styleRules[j].styling.value[d].property.value = p}}

C13_PartOfOutranksIsA ==
    StyledWithModel =>
        \A p \in Properties :
            \A B \in PartOf(OwnClass) : \A C \in IsA(OwnClass) :
                (/\ ValuesOf(<<".">> \o OwnClass, p) = {} /\ IdValues(p) = {}
                 /\ B # C /\ B # OwnClass /\ C # OwnClass
                 /\ ValuesOf(<<".">> \o B, p) # {}
                 /\ ValuesOf(<<".">> \o C, p) # {})
                    => /\ p \in DOMAIN resolved
                       /\ resolved[p] \in ValuesOf(<<".">> \o B, p)

LatestValue(selector, p) ==
    LET latest == CHOOSE i \in 1..Len(styleRules) :
                    /\ styleRules[i].selector = selector
                    /\ styleRules[i].position \in Positions(selector, p)
                    /\ \A q \in Positions(selector, p) : q <= styleRules[i].position
        d == CHOOSE d \in 1..Len(styleRules[latest].styling.value) :
                    styleRules[latest].styling.value[d].property.value = p
    IN  styleRules[latest].styling.value[d].value

\* C15: the ordering of the rules puts, of two rules of equal specificity,
\* the one with the lower sequence number first, and of the rules for the
\* feature's id that declare a property, the resolved style has the value of
\* the one declared last.
C15_LaterRuleWinsTies ==
    /\ \A i, j \in 1..Len(styleRules) :
            /\ styleRules[i].specificity = styleRules[j].specificity
            /\ styleRules[i].position < styleRules[j].position
            => compare(styleRules[i], styleRules[j]) < 0
    /\ stylePc = "done" =>
            \A p \in Properties :
                IdValues(p) # {} =>
                    /\ p \in DOMAIN resolved
                    /\ resolved[p] = LatestValue(feature.styleId, p)

\* The classes reached from the classes S by following part_of and is_a in
\* the table, in at most n more hops
RECURSIVE Reached(_, _)
Reached(S, n) ==
    IF n = 0 THEN S
    ELSE Reached(S \cup UNION {PartOf(x) \cup IsA(x) : x \in S}, n - 1)

Hops == Cardinality(DOMAIN entities)

\* The superclasses of the feature's models: by one or more hops, and those
\* whose first hop is a part_of
Superclasses ==
    Reached(UNION {PartOf(m) \cup IsA(m) : m \in Range(feature.models)}, Hops)
PartOfSuperclasses ==
    Reached(UNION {PartOf(m) : m \in Range(feature.models)}, Hops)

HasSelector(i, selectors) == styleRules[i].selector \in selectors

RuleDeclares(i, p) ==
    \E d \in 1..Len(styleRules[i].styling.value) :
        styleRules[i].styling.value[d].property.value = p

RuleValue(i, p) ==
    LET d == CHOOSE d \in 1..Len(styleRules[i].styling.value) :
                styleRules[i].styling.value[d].property.value = p
    IN  styleRules[i].styling.value[d].value

ClassSelectors(classes) == { <<".">> \o class : class \in classes }

\* The precedence of a rule for the feature: rules for its id, then for its
\* own classes, then for its part_of superclasses, then for the others; no
\* precedence when the rule does not match the feature
Precedence(i) ==
    IF "styleId" \in DOMAIN feature /\ styleRules[i].selector = feature.styleId THEN 4
    ELSE IF HasSelector(i, ClassSelectors(Range(feature.models))) THEN 3
    ELSE IF HasSelector(i, ClassSelectors(PartOfSuperclasses)) THEN 2
    ELSE IF HasSelector(i, ClassSelectors(Superclasses)) THEN 1
    ELSE 0

Matching(p) == {i \in 1..Len(styleRules) : Precedence(i) > 0 /\ RuleDeclares(i, p)}

Outranks(i, j) ==
    \/ Precedence(i) > Precedence(j)
    \/ Precedence(i) = Precedence(j) /\ styleRules[i].position >= styleRules[j].position

\* C16: for every property a rule matching the feature declares, the resolved
\* style has the value of the matching rule of the highest precedence that
\* declares it; so a property only a rule of lower precedence declares is in
\* the resolved style too.
C16_MergedByProperty ==
    stylePc = "done" =>
        \A p \in Properties :
            Matching(p) # {} =>
                /\ p \in DOMAIN resolved
                /\ \E i \in Matching(p) :
                        /\ \A j \in Matching(p) : Outranks(i, j)
                        /\ resolved[p] = RuleValue(i, p)

\* C17: the properties of a rule for a class reached from the feature's class
\* by one or more part_of and is_a hops are in the resolved style, and every
\* value of the resolved style is declared by a rule for the feature's own
\* id, for its own class or for a class so reached.
C17_SuperclassesMatch ==
    stylePc = "done" =>
        /\ \A i \in 1..Len(styleRules) : \A p \in Properties :
                HasSelector(i, ClassSelectors(Superclasses)) /\ RuleDeclares(i, p)
                    => p \in DOMAIN resolved
        /\ \A p \in DOMAIN resolved :
                \E i \in Matching(p) : resolved[p] = RuleValue(i, p)

NoDuplicates(s) == \A i, j \in 1..Len(s) : i # j => s[i] # s[j]

\* The models a query can come to
Mentioned ==
    {normaliseKey(m) : m \in Range(feature.models)
        \cup UNION {PartOf(k) \cup IsA(k) : k \in DOMAIN entities}}

---------------------------------------------------------------------------
(* Claims about the loading of stylesheets                                 *)

\* C19: whatever stylesheets are loaded, no pattern id has its image loaded
\* and added to the map more than once, and every pattern a selector has was
\* added.
C19_PatternRegisteredOnce ==
    /\ \A i, j \in 1..Len(registered) :
            i # j => registered[i].id # registered[j].id
    /\ \A selector \in DOMAIN rulesMap :
            "pattern" \in DOMAIN rulesMap[selector] =>
                \E i \in 1..Len(registered) : registered[i].id = rulesMap[selector]["pattern"]

\* The blocks of a text that are well formed
RECURSIVE WellFormedBlocks(_)
WellFormedBlocks(cssText) ==
    IF cssText = <<>> THEN <<>>
    ELSE IF Head(cssText) = Malformed THEN WellFormedBlocks(Tail(cssText))
    ELSE <<Head(cssText)>> \o WellFormedBlocks(Tail(cssText))

\* C20: a load of a text with a malformed block does not throw, and adds the
\* declarations of every well formed rule of the text, those before the
\* malformed block and those after it.
C20_MalformedBlockSkipped ==
    [][\A url \in StylesheetUrls, cssText \in PatternTexts :
            (/\ fetchStyleRules_(url, cssText)
             /\ cssText # WellFormedBlocks(cssText))
                => /\ ~loadThrew'
                   /\ rulesMap' = AddRules([rulesMap |-> rulesMap, images |-> registered],
                                           url, WellFormedBlocks(cssText)).rulesMap]_vars


---------------------------------------------------------------------------
(* Paint properties of features *)

\* The colour of the first of annotation-error and highlighted that is set
PriorityColour(featureState, colour) ==
    IF "annotation-error" \in featureState THEN "pink"
    ELSE IF "highlighted" \in featureState THEN "green"
    ELSE colour

\* C21: in every feature state, and whatever layerActive and annotating
\* are, a border and a line are painted in the error colour when
\* annotation-error is set, otherwise in the highlight colour when
\* highlighted is set, otherwise blue for a border and red for a line.
C21_ColourPriority ==
    paintPc = "painted" =>
        /\ painted.borderColour = PriorityColour(rendering.featureState, "blue")
        /\ painted.lineColour = PriorityColour(rendering.featureState, "red")

\* C21: a feature with both flags set has been painted in the error colour
C21_Witness ==
    /\ paintPc = "painted"
    /\ {"annotation-error", "highlighted"} \subseteq rendering.featureState
    /\ painted.borderColour = "pink"
    /\ painted.lineColour = "pink"

\* The width of a line of a multiple of the base width, at the zoom level
WidthOf(multiple, base) ==
    Interpolate(rendering.zoom, multiple * base, HighFactor * multiple * base)

\* C22: in an active layer a feature that is selected and highlighted is
\* painted with the width of a selected feature, three times the base
\* width, and one that is highlighted and annotated, and not selected, with
\* the width of a highlighted feature, twice the base width.
C22_SelectedOutranksHighlighted ==
    (/\ paintPc = "painted"
     /\ rendering.layerActive
     /\ "annotation-error" \notin rendering.featureState) =>
        /\ {"selected", "highlighted"} \subseteq rendering.featureState =>
              /\ painted.borderWidth = WidthOf(3, PAINT_STYLES.border_stroke_width)
              /\ painted.lineWidth = WidthOf(3, PAINT_STYLES.line_stroke_width)
        /\ (/\ {"highlighted", "annotated"} \subseteq rendering.featureState
            /\ "selected" \notin rendering.featureState) =>
              /\ painted.borderWidth = WidthOf(2, PAINT_STYLES.border_stroke_width)
              /\ painted.lineWidth = WidthOf(2, PAINT_STYLES.line_stroke_width)

---------------------------------------------------------------------------
(* The active layers of a layer manager *)

\* The layer object of a reference
LayerOf(ref) ==
    layers[CHOOSE id \in DOMAIN layers : layers[id].ref = ref]

ActiveListsConsistent ==
    /\ Len(activeLayers) = Len(activeLayerIds)
    /\ \A i, j \in 1..Len(activeLayers) :
            i # j => /\ activeLayers[i] # activeLayers[j]
                     /\ activeLayerIds[i] # activeLayerIds[j]
    /\ \A i \in 1..Len(activeLayers) :
            /\ \E id \in DOMAIN layers : layers[id].ref = activeLayers[i]
            /\ activeLayerIds[i] = LayerOf(activeLayers[i]).id

IsActive(id) ==
    /\ id \in DOMAIN layers
    /\ \E i \in 1..Len(activeLayers) : activeLayers[i] = layers[id].ref

C30_InactiveLayerInvisible ==
    \A id \in DOMAIN layers :
        ~IsActive(id) =>
            \A featureState \in SUBSET FlagNames :
                /\ Evaluate(layers[id].border.opacity, featureState) = 0
                /\ Evaluate(layers[id].line.opacity, featureState) = 0
                /\ \A zoomLevel \in ZoomLevels :
                      /\ EvaluateWidth(layers[id].border.width, featureState, zoomLevel) = 0
                      /\ EvaluateWidth(layers[id].line.width, featureState, zoomLevel) = 0

---------------------------------------------------------------------------
(* The map manager *)

Fetching == {caller \in Callers : At(caller, "fetch")}

\* C23: however the calls of loadMap interleave, at most one caller is
\* fetching the index at any time; once the manager is initialised no
\* fetch is started; a caller that goes on to look up its map has the
\* loaded index; and a fetch that fails leaves the manager uninitialised.
C23_IndexFetchedOnce ==
    /\ [](/\ Cardinality(Fetching) <= 1
          /\ \A caller \in Callers :
                At(caller, "initialised") =>
                    initialised /\ mapIndex = serverIndex)
    /\ [][/\ initialised => (fetches' = fetches /\ initialised')
          /\ \A caller \in Callers :
                IndexLoaded(caller, FALSE) => ~initialised']_vars

\* C23: after a fetch of one caller failed, another caller has fetched
\* the index
C23_Witness ==
    /\ fetches = 2
    /\ initialised
    /\ \E caller \in Callers : At(caller, "stalled")
    /\ \E caller \in Callers : At(caller, "initialised")

\* A call that has looked up its map
Looked(caller) == loads[caller].pc \in {"load", "done"}

\* The places of the entries of the index the identifier names
Named(index, name) ==
    {i \in 1..Len(index) :
        name \in {index[i].id, index[i].describes, index[i].source}}

Dated(index, places) == {i \in places : "created" \in DOMAIN index[i]}

\* The places of the entries with the latest time of creation
Latest(index, places) ==
    {i \in Dated(index, places) :
        \A j \in Dated(index, places) : ~Less(index[i].created, index[j].created)}

Least(places) == CHOOSE i \in places : \A j \in places : i <= j

\* The entry a name selects: the first entry it names that has no time of
\* creation, and with none the first of those with the latest time
Selected(index, name) ==
    IF Named(index, name) = {} THEN NoMap
    ELSE IF Named(index, name) # Dated(index, Named(index, name))
         THEN index[Least(Named(index, name) \ Dated(index, Named(index, name)))]
         ELSE index[Least(Latest(index, Named(index, name)))]

---------------------------------------------------------------------------
(* The record of a parsed annotation *)

\* C27: every record of a text the grammar accepts has properties, and
\* for a text that is a feature id alone, without clauses, properties is
\* the empty mapping and models the empty sequence.
C27_PropertiesOfIdAlone ==
    (parsePc = "done" /\ Accepted(text))
        => /\ "properties" \in DOMAIN result
           /\ (~given.raw /\ given.clauses = <<>>)
                 => /\ result.properties = EmptyMap
                    /\ result.models = <<>>

---------------------------------------------------------------------------
(* The feature state and the stored annotations *)

\* The annotation stored for a feature has an error
StoredWithError(featureId) ==
    /\ featureId \in DOMAIN idToAnnotation
    /\ "error" \in DOMAIN heap[idToAnnotation[featureId]]

\* C24: once the layers of the map are added, and after every
\* setAnnotation, a feature has the feature state 'annotation-error' if and
\* only if the annotation stored for it has an error.
C24_ErrorFlagFollowsAnnotation ==
    \A featureId \in Features :
        "annotation-error" \in featureStates[featureId]
            <=> StoredWithError(featureId)

---------------------------------------------------------------------------
(* The stored records, and closes of the dialog that change nothing *)

Parses(t) == "error" \notin DOMAIN parseAnnotation(t)

\* C26, as stated: every record of the feature-id index has an id if and
\* only if its text parses and an error if and only if its text does not
\* parse, and none has both.
C26_IdOrError ==
    \A featureId \in DOMAIN idToAnnotation :
        /\ "id" \in DOMAIN heap[idToAnnotation[featureId]]
              <=> Parses(heap[idToAnnotation[featureId]].text)
        /\ "error" \in DOMAIN heap[idToAnnotation[featureId]]
              <=> ~Parses(heap[idToAnnotation[featureId]].text)

\* A record with the error its persisted entry is marked with
Marked(featureId) ==
    /\ featureId \in DOMAIN metadata
    /\ "error" \in DOMAIN metadata[featureId]
    /\ metadata[featureId].error = heap[idToAnnotation[featureId]].error
    /\ metadata[featureId].annotation = heap[idToAnnotation[featureId]].text

\* C26, amended: every record of the feature-id index has an id if and
\* only if its text parses, and has an error if its text does not parse; a
\* record with an id has an error only when it was loaded from a persisted
\* entry that is marked with this error and was not saved since.
C26_ErrorOfTextOrOfEntry ==
    \A featureId \in DOMAIN idToAnnotation :
        /\ "id" \in DOMAIN heap[idToAnnotation[featureId]]
              <=> Parses(heap[idToAnnotation[featureId]].text)
        /\ ~Parses(heap[idToAnnotation[featureId]].text)
              => "error" \in DOMAIN heap[idToAnnotation[featureId]]
        /\ (/\ Parses(heap[idToAnnotation[featureId]].text)
            /\ "error" \in DOMAIN heap[idToAnnotation[featureId]])
              => Marked(featureId)

\* C26: after a save, one record has an id and no error and another one
\* an id and the error of its entry
C26_Witness ==
    /\ last.posted
    /\ \E featureId \in DOMAIN idToAnnotation :
          /\ "id" \in DOMAIN heap[idToAnnotation[featureId]]
          /\ "error" \in DOMAIN heap[idToAnnotation[featureId]]
    /\ \E featureId \in DOMAIN idToAnnotation :
          /\ "id" \in DOMAIN heap[idToAnnotation[featureId]]
          /\ "error" \notin DOMAIN heap[idToAnnotation[featureId]]

\* The close callback of the dialog is called when the dialog is removed
CallbackCalled == dialog' = "closed"

NothingStored ==
    /\ UNCHANGED <<idToAnnotation, urlToAnnotation, metadata>>
    /\ ~last'.posted

\* C28: a Save of a text that does not parse, a Save of the text the
\* annotation has, and a Cancel change neither index nor the metadata and
\* send nothing to the server; after a Save of a text that does not parse
\* or whose id another feature of the layer has, the dialog is shown again
\* and the close callback is not called.
C28_FailedCloseChangesNothing ==
    [][/\ dialogClose_("Cancel", <<>>) => NothingStored /\ CallbackCalled
       /\ \A t \in DialogTexts \ {<<>>} :
            /\ (dialogClose_("Save", t) /\ ~Parses(t))
                  => NothingStored /\ dialog' = "open" /\ ~CallbackCalled
            /\ (dialogClose_("Save", t) /\ t = currentAnn.text)
                  => NothingStored
            /\ SavesDuplicate(t)
                  => dialog' = "open" /\ ~CallbackCalled]_vars
---------------------------------------------------------------------------
(* The style layers of a flatmap layer: the fill, pattern, border and line *)
(* layers the constructor of MapboxStyleLayers (stylesheet.js) and that of *)
(* MapFeatureLayer (layers.js) add to the map, with their filters.         *)

\* Filters of style layers
TypeIs(type) == [op |-> "==", type |-> type]
In(ids) == [op |-> "in", ids |-> ids]
NotIn(ids) == [op |-> "!in", ids |-> ids]
All(filters) == [op |-> "all", filters |-> filters]

\* Whether a filter lets a feature through, as the map evaluates it
RECURSIVE Passes(_, _)
Passes(filter, mapFeature) ==
    CASE filter.op = "==" -> mapFeature.type = filter.type
      [] filter.op = "in" -> \E i \in 1..Len(filter.ids) : filter.ids[i] = mapFeature.id
      [] filter.op = "!in" -> \A i \in 1..Len(filter.ids) : filter.ids[i] # mapFeature.id
      [] filter.op = "all" ->
            \A i \in 1..Len(filter.filters) : Passes(filter.filters[i], mapFeature)

\* What a style function returns when it makes no style layer
NoStyleLayer == [none |-> TRUE]

\* The ids of the textured features, in their order
IdsOf(texturedFeatures) ==
    [i \in 1..Len(texturedFeatures) |-> texturedFeatures[i].id]

\* FeatureFillLayer.style
FeatureFillLayer(sourceLayer, texturedFeatures) ==
    [id |-> sourceLayer \o <<"-", "f", "i", "l", "l">>,
     type |-> "fill",
     filter |-> IF Len(texturedFeatures) # 0
                THEN All(<<TypeIs("Polygon"), NotIn(IdsOf(texturedFeatures))>>)
                ELSE TypeIs("Polygon")]

\* FeaturePatternLayer.style
FeaturePatternLayer(sourceLayer, texturedFeatures) ==
    IF Len(texturedFeatures) = 0 THEN NoStyleLayer
    ELSE [id |-> sourceLayer \o <<"-", "p", "a", "t", "t", "e", "r", "n">>,
          type |-> "fill",
          filter |-> All(<<TypeIs("Polygon"), In(IdsOf(texturedFeatures))>>)]

\* FeatureBorderLayer.style and FeatureLineLayer.style, without their paint
BorderStyleLayer(sourceLayer) ==
    [id |-> sourceLayer \o <<"-", "b", "o", "r", "d", "e", "r">>, type |-> "line", filter |-> TypeIs("Polygon")]

LineStyleLayer(sourceLayer) ==
    [id |-> sourceLayer \o <<"-", "l", "i", "n", "e">>, type |-> "line", filter |-> TypeIs("LineString")]

\* The loop of the constructors over the features of the layer: the
\* Polygon features whose style has the key the constructor looks for
RECURSIVE TexturedFeatures(_, _)
TexturedFeatures(features, styleKey) ==
    IF features = <<>> THEN <<>>
    ELSE (IF Head(features).type = "Polygon" /\ styleKey \in DOMAIN Head(features).styling
          THEN <<[id |-> Head(features).id, texture |-> Head(features).styling[styleKey]]>>
          ELSE <<>>)
         \o TexturedFeatures(Tail(features), styleKey)

\* What a constructor has added to the map, and whether it threw
NothingBuilt == [styleLayers |-> <<>>, styleLayerIds |-> <<>>, threw |-> FALSE]

Added(built, styleLayer) ==
    [built EXCEPT !.styleLayers = Append(@, styleLayer),
                  !.styleLayerIds = Append(@, styleLayer.id)]

\* MapboxStyleLayers.addStyleLayer_ (stylesheet.js)
addStyleLayer_(built, styleLayer) ==
    IF styleLayer # NoStyleLayer THEN Added(built, styleLayer) ELSE built

\* MapFeatureLayer.addStyleLayer_ (layers.js): the id of the style layer is
\* read whatever the style function returned, and reading it of null throws
addStyleLayerOfFeatureLayer_(built, styleLayer) ==
    IF built.threw THEN built
    ELSE IF styleLayer = NoStyleLayer THEN [built EXCEPT !.threw = TRUE]
    ELSE Added(built, styleLayer)

Built(built, by) ==
    /\ styleLayers' = built.styleLayers
    /\ styleLayerIds' = built.styleLayerIds
    /\ constructThrew' = built.threw
    /\ constructed' = by
    /\ UNCHANGED layerFeatures

\* new MapboxStyleLayers(map, id, features, stylesheet), with the styling
\* the stylesheet resolved for each feature
MapboxStyleLayers(id) ==
    /\ constructed = "new"
    /\ Built(addStyleLayer_(
                addStyleLayer_(
                    addStyleLayer_(
                        addStyleLayer_(NothingBuilt,
                            FeaturePatternLayer(id, TexturedFeatures(layerFeatures, "texture"))),
                        FeatureFillLayer(id, TexturedFeatures(layerFeatures, "texture"))),
                    BorderStyleLayer(id)),
                LineStyleLayer(id)),
             "MapboxStyleLayers")

\* new MapFeatureLayer(map, layer, features)
NewMapFeatureLayer(id) ==
    /\ constructed = "new"
    /\ Built(addStyleLayerOfFeatureLayer_(
                addStyleLayerOfFeatureLayer_(
                    addStyleLayerOfFeatureLayer_(
                        addStyleLayerOfFeatureLayer_(NothingBuilt,
                            FeaturePatternLayer(id, TexturedFeatures(layerFeatures, "pattern"))),
                        FeatureFillLayer(id, TexturedFeatures(layerFeatures, "pattern"))),
                    BorderStyleLayer(id)),
                LineStyleLayer(id)),
             "MapFeatureLayer")

\* The features of a layer: each has an id of its own, is a Polygon or a
\* LineString, and has a resolved style with a texture, with a pattern (as
\* layers.js names it) or with neither
MaxLayerFeatures == 3
FeatureStylings == { EmptyMap, [texture |-> <<"d", "o", "t", "s">>], [pattern |-> <<"d", "o", "t", "s">>] }
FeatureTypes == {"Polygon", "LineString"}

LayerFeatures(n) ==
    { fs \in [1..n -> [id : 1..n, type : FeatureTypes, styling : FeatureStylings]] :
        \A i \in 1..n : fs[i].id = i }

AllLayerFeatures == UNION {LayerFeatures(n) : n \in 0..MaxLayerFeatures}

---------------------------------------------------------------------------
(* UserInteractions (interactions.js): the user interface of a map.  The   *)
(* handlers are functions of the state of the interface, a record with the *)
(* fields of the UserInteractions object, of its layer manager and         *)
(* annotation control, and the feature states the map keeps.               *)

\* this._selectedFeature when it is null, and a tooltip that is hidden
NoSelection == 0
Hidden == 0

\* A context menu that is not showing
NoMenu == [showing |-> FALSE, id |-> 0, items |-> {}]

\* No options: no map
NoOptions == [none |-> TRUE]

\* The interface as the variables hold it
ThisInterface ==
    [states |-> featureStates,
     layers |-> layers, activeLayers |-> activeLayers, activeLayerIds |-> activeLayerIds,
     enabled |-> enabled,
     layerSwitcher |-> layerSwitcher,
     userInterfaceLoadedCallback |-> userInterfaceLoadedCallback,
     callbackCalls |-> callbackCalls, resolves |-> resolves, stateTimer |-> stateTimer,
     selectedFeature |-> selectedFeature, highlightedFeatures |-> highlightedFeatures,
     inQuery |-> inQuery, modal |-> modal, tooltip |-> tooltip,
     contextMenu |-> contextMenu, threw |-> FALSE]

\* UserInteractions.annotating
Annotating(u) == options.annotatable /\ u.enabled

\* LayerManager.activate and deactivate, as functions of the interface
Activated(u, id, annotating) ==
    IF id \in DOMAIN u.layers
    THEN [u EXCEPT
            !.layers[id] = LayerActivated(@, annotating),
            !.activeLayers = IF indexOf(@, u.layers[id].ref) < 0
                             THEN Append(@, u.layers[id].ref) ELSE @,
            !.activeLayerIds = IF indexOf(u.activeLayers, u.layers[id].ref) < 0
                               THEN Append(@, u.layers[id].id) ELSE @]
    ELSE u

Deactivated(u, id) ==
    IF id \in DOMAIN u.layers
    THEN [u EXCEPT
            !.layers[id] = LayerDeactivated(@),
            !.activeLayers = IF indexOf(@, u.layers[id].ref) >= 0
                             THEN splice(@, indexOf(@, u.layers[id].ref)) ELSE @,
            !.activeLayerIds = IF indexOf(u.activeLayers, u.layers[id].ref) >= 0
                               THEN splice(@, indexOf(u.activeLayers, u.layers[id].ref))
                               ELSE @]
    ELSE u

activateLayer_(u, id) == Activated(u, id, Annotating(u))
deactivateLayer_(u, id) == Deactivated(u, id)

\* activateActiveLayers: activateLayer_ of every id of activeLayerIds_
RECURSIVE ActivatedEach(_, _)
ActivatedEach(u, ids) ==
    IF ids = <<>> THEN u
    ELSE ActivatedEach(activateLayer_(u, Head(ids)), Tail(ids))

activateActiveLayers(u) == ActivatedEach(u, u.activeLayerIds)

\* AnnotationControl.onClick_
onClick_(u) == activateActiveLayers([u EXCEPT !.enabled = ~@])

\* unselectFeatures_(reset) and selectFeature_(feature)
unselectFeatures_(u, reset) ==
    IF u.selectedFeature # NoSelection
    THEN [removeFeatureState(u, u.selectedFeature, {"selected"})
            EXCEPT !.selectedFeature = IF reset THEN NoSelection ELSE @]
    ELSE u

selectAlso_(u, f) ==
    [setFeatureState(u, f, "selected") EXCEPT !.selectedFeature = f]

selectFeature_(u, f) ==
    [setFeatureState(unselectFeatures_(u, FALSE), f, "selected")
        EXCEPT !.selectedFeature = f]

\* unhighlightFeatures_
RECURSIVE Unhighlighted(_, _)
Unhighlighted(u, fs) ==
    IF fs = <<>> THEN u
    ELSE Unhighlighted(removeFeatureState(u, Head(fs), {"highlighted"}), Tail(fs))

unhighlightFeatures_(u) ==
    [Unhighlighted(u, u.highlightedFeatures) EXCEPT !.highlightedFeatures = <<>>]

\* activeFeaturesAtEvent_: the features rendered at the point of the event
\* that are in the active layers
RECURSIVE activeFeaturesAtEvent_(_, _)
activeFeaturesAtEvent_(u, rendered) ==
    IF rendered = <<>> THEN <<>>
    ELSE (IF indexOf(u.activeLayerIds, FeatureLayer(Head(rendered))) >= 0
          THEN <<Head(rendered)>> ELSE <<>>)
         \o activeFeaturesAtEvent_(u, Tail(rendered))

\* The area of a feature, as turfArea gives it
Area(f) == 2 * NumFeatures - f

\* smallestAnnotatedPolygonFeature_: the loop over the rest of the features
RECURSIVE SmallestFrom(_, _, _)
SmallestFrom(u, fs, smallestFeature) ==
    IF fs = <<>> THEN smallestFeature
    ELSE IF /\ FeatureQueryable(Head(fs))
            /\ (Annotating(u) \/ "annotated" \in StateOf(u, Head(fs)))
            /\ (smallestFeature = NoSelection \/ Area(smallestFeature) > Area(Head(fs)))
         THEN SmallestFrom(u, Tail(fs), Head(fs))
         ELSE SmallestFrom(u, Tail(fs), smallestFeature)

smallestAnnotatedPolygonFeature_(u, fs) == SmallestFrom(u, fs, NoSelection)

\* The feature of a mouse move or of a context menu: lines 409-413
FeatureAt(u, rendered) ==
    LET fs == activeFeaturesAtEvent_(u, rendered)
    IN  IF /\ smallestAnnotatedPolygonFeature_(u, fs) = NoSelection
           /\ Annotating(u)
           /\ Len(fs) # 0
        THEN fs[1]
        ELSE smallestAnnotatedPolygonFeature_(u, fs)

\* LayerManager.layerQueryable: layer['queryable-nodes'] of the map's layer
layerQueryable(layerId) ==
    \E i \in 1..Len(options.layers) :
        options.layers[i].id = layerId /\ options.layers[i].queryable

\* showTooltip_: the feature is selected, and the tooltip is shown when
\* annotating and for a feature with models
showTooltip_(u, f) ==
    LET selected == selectFeature_(u, f)
        ann == getAnnotation(ThisMap, f)
    IN  IF Annotating(u)
        THEN [u |-> [selected EXCEPT !.tooltip = f], result |-> TRUE]
        ELSE IF ann.found
        THEN IF Len(ann.ann.models) # 0
             THEN [u |-> [selected EXCEPT !.tooltip = f], result |-> TRUE]
             ELSE [u |-> selected, result |-> layerQueryable(ann.ann.layer)]
        ELSE [u |-> selected, result |-> FALSE]

\* mouseMoveEvent_
mouseMoveEvent_(u, rendered) ==
    IF u.modal THEN u
    ELSE IF FeatureAt(u, rendered) = NoSelection
    THEN unselectFeatures_([u EXCEPT !.tooltip = Hidden], TRUE)
    ELSE IF ~showTooltip_(u, FeatureAt(u, rendered)).result
    THEN unselectFeatures_(
            [showTooltip_(u, FeatureAt(u, rendered)).u EXCEPT !.tooltip = Hidden], TRUE)
    ELSE showTooltip_(u, FeatureAt(u, rendered)).u

\* The items of the context menu of a feature
MenuItems(u, f) ==
    LET ann == getAnnotation(ThisMap, f)
    IN  (IF ann.found /\ Len(ann.ann.models) > 0 THEN {"data"} ELSE {})
            \cup (IF ann.found /\ layerQueryable(ann.ann.layer)
                  THEN {"edges", "nodes"} ELSE {})
            \cup (IF Annotating(u) THEN {"annotate"} ELSE {})
            \cup {"zoom"}

\* contextMenuEvent_, for an event that is not the duplicate of another
contextMenuEvent_(u, rendered) ==
    IF FeatureAt(u, rendered) # NoSelection
    THEN [selectFeature_(u, FeatureAt(u, rendered)) EXCEPT
            !.tooltip = Hidden,
            !.modal = TRUE,
            !.contextMenu = [showing |-> TRUE, id |-> FeatureAt(u, rendered),
                             items |-> MenuItems(u, FeatureAt(u, rendered))]]
    ELSE u

\* contextMenuClosed_
contextMenuClosed_(u) == [u EXCEPT !.modal = FALSE]

\* this._contextMenu.hide(): the menu is taken away, and it tells the
\* interface that it closed, or does not (contextmenu.js)
hide(u) ==
    IF contextMenuReports THEN contextMenuClosed_([u EXCEPT !.contextMenu = NoMenu])
    ELSE [u EXCEPT !.contextMenu = NoMenu]

\* zoomTo_
zoomTo_(u) == hide(u)

\* query_(type, event), for the feature of the menu
query_(u, type) ==
    LET hidden == hide(unhighlightFeatures_(u))
    IN  IF type = "data"
        THEN [hidden EXCEPT !.modal = FALSE]
        ELSE IF getAnnotation(ThisMap, u.contextMenu.id).found
        THEN [hidden EXCEPT !.inQuery = TRUE, !.modal = FALSE]
        ELSE [hidden EXCEPT !.threw = TRUE]

\* clickEvent_: close is called of the layer switcher, also when it is null
clickEvent_(u, rendered) ==
    IF ~u.layerSwitcher THEN [u EXCEPT !.threw = TRUE]
    ELSE LET f == smallestAnnotatedPolygonFeature_(u, activeFeaturesAtEvent_(u, rendered))
         IN  IF f # NoSelection
             THEN unhighlightFeatures_(selectFeature_(u, f))
             ELSE unhighlightFeatures_(u)

\* processMessage_ of 'flatmap-query-results': the loop over the rest of
\* the urls; an url whose feature has no annotation by its id throws
RECURSIVE Highlighted(_, _)
Highlighted(u, urls) ==
    IF urls = <<>> THEN [u EXCEPT !.inQuery = FALSE]
    ELSE IF featureIdForUrl(ThisMap, Head(urls)) # 0
    THEN IF getAnnotation(ThisMap, featureIdForUrl(ThisMap, Head(urls))).found
         THEN Highlighted(
                [setFeatureState(u, featureIdForUrl(ThisMap, Head(urls)), "highlighted")
                    EXCEPT !.highlightedFeatures =
                                Append(@, featureIdForUrl(ThisMap, Head(urls)))],
                Tail(urls))
         ELSE [u EXCEPT !.threw = TRUE]
    ELSE Highlighted(u, Tail(urls))

\* processMessage_
processMessage_(u, msg) ==
    CASE msg.action = "flatmap-activate-layer" -> activateLayer_(u, msg.resource)
      [] msg.action = "flatmap-deactivate-layer" -> deactivateLayer_(u, msg.resource)
      [] msg.action = "flatmap-query-results" -> Highlighted(u, msg.resource)
      [] OTHER -> u

\* The callback FlatMap.finalise_ gives the interface: with a state in the
\* options the state is restored and the promise resolved after a timeout
Loaded_(u) ==
    IF "state" \in DOMAIN options
    THEN [u EXCEPT !.stateTimer = TRUE]
    ELSE [u EXCEPT !.resolves = @ + 1]

\* Lines 171-175 and layerSwitcherActiveCallback_
CallbackCalledAgain_(u) ==
    IF u.userInterfaceLoadedCallback
    THEN [Loaded_(u) EXCEPT !.callbackCalls = @ + 1]
    ELSE u

CallbackCalled_(u) ==
    IF u.userInterfaceLoadedCallback
    THEN [Loaded_(u) EXCEPT !.callbackCalls = @ + 1,
                            !.userInterfaceLoadedCallback = FALSE]
    ELSE u

layerSwitcherActiveCallback_(u) == CallbackCalled_(u)

\* setState(state): the layer switcher is told of the layers, and FlatMap
\* has no method mapLayerId
setState(u, state) ==
    IF /\ "layers" \in DOMAIN state
       /\ \/ (Len(u.activeLayerIds) # 0 /\ ~u.layerSwitcher)
          \/ Len(state.layers) # 0
    THEN [u EXCEPT !.threw = TRUE]
    ELSE u

\* The timeout of finalise_: ui.setState and then this._resolve
StateRestored(u) ==
    IF setState(u, options.state).threw
    THEN [setState(u, options.state) EXCEPT !.stateTimer = FALSE]
    ELSE [u EXCEPT !.stateTimer = FALSE, !.resolves = @ + 1]

\* LayerManager.addLayer of the layers of the map, lines 127-131
RECURSIVE LayersOf(_, _)
LayersOf(added, ls) ==
    IF ls = <<>> THEN added
    ELSE LayersOf(Put(added, fullLayerId(Head(ls).id),
                      MapFeatureLayer(Cardinality(DOMAIN added) + 1, Head(ls).id)),
                  Tail(ls))

\* this._layerManager.selectableLayerCount and lastSelectableLayerId
Selectable == {i \in 1..Len(options.layers) : options.layers[i].selectable}
selectableLayerCount == Cardinality(Selectable)
lastSelectableLayerId ==
    fullLayerId(options.layers[CHOOSE i \in Selectable : \A j \in Selectable : j <= i].id)

\* new UserInteractions(flatmap, userInterfaceLoadedCallback)
UserInteractions(u) ==
    LET added == [u EXCEPT !.layers = LayersOf(EmptyMap, options.layers),
                           !.states = LayersAdded(ThisMap).states,
                           !.layerSwitcher = selectableLayerCount > 1,
                           !.userInterfaceLoadedCallback = TRUE]
        active == IF selectableLayerCount = 1
                  THEN activateLayer_(added, lastSelectableLayerId)
                  ELSE added
    IN  IF ~active.layerSwitcher THEN CallbackCalled_(active) ELSE active

---------------------------------------------------------------------------
(* The events of the user interface *)

\* The interface becomes what a handler makes of it
InterfaceBecomes(u) ==
    /\ layers' = u.layers
    /\ activeLayers' = u.activeLayers
    /\ activeLayerIds' = u.activeLayerIds
    /\ enabled' = u.enabled
    /\ layerSwitcher' = u.layerSwitcher
    /\ userInterfaceLoadedCallback' = u.userInterfaceLoadedCallback
    /\ callbackCalls' = u.callbackCalls
    /\ resolves' = u.resolves
    /\ stateTimer' = u.stateTimer
    /\ selectedFeature' = u.selectedFeature
    /\ highlightedFeatures' = u.highlightedFeatures
    /\ inQuery' = u.inQuery
    /\ modal' = u.modal
    /\ tooltip' = u.tooltip
    /\ contextMenu' = u.contextMenu
    /\ handlerThrew' = u.threw
    /\ UNCHANGED <<options, contextMenuReports>>

Becomes(u) ==
    /\ InterfaceBecomes(u)
    /\ featureStates' = u.states
    /\ UNCHANGED <<heap, idToAnnotation, urlToAnnotation, metadata, annotatorVars>>

\* The map is shown only when its interface is made, and the dialog is
\* modal in the page: while it is open no event reaches the map
Shown == userInteractions /\ dialog = "closed"

\* FlatMap.finalise_, when the map has loaded
finalise_ ==
    /\ ~userInteractions
    /\ userInteractions' = TRUE
    /\ Becomes(UserInteractions(ThisInterface))

\* The layer switcher calls back
LayerSwitcherActive ==
    /\ userInteractions /\ layerSwitcher
    /\ Becomes(layerSwitcherActiveCallback_(ThisInterface))
    /\ UNCHANGED userInteractions

\* The timeout of finalise_ runs
StateTimeout ==
    /\ stateTimer
    /\ Becomes(StateRestored(ThisInterface))
    /\ UNCHANGED userInteractions

\* FlatMap.setState(state)
StateSet(state) ==
    /\ userInteractions
    /\ Becomes(setState(ThisInterface, state))
    /\ UNCHANGED userInteractions

\* The annotation control is clicked
ControlClicked ==
    /\ Shown /\ options.annotatable
    /\ Becomes(onClick_(ThisInterface))
    /\ UNCHANGED userInteractions

\* A message of another application arrives
MaxHighlighted == 1

MessageReceived(msg) ==
    /\ userInteractions
    /\ msg.action = "flatmap-query-results" =>
            Len(highlightedFeatures) + Len(msg.resource) <= MaxHighlighted
    /\ Becomes(processMessage_(ThisInterface, msg))
    /\ UNCHANGED userInteractions

\* The mouse moves over the map, the map is clicked, and a context menu
\* is asked for, where some features are rendered
MouseMoved(rendered) ==
    /\ Shown
    /\ Becomes(mouseMoveEvent_(ThisInterface, rendered))
    /\ UNCHANGED userInteractions

MapClicked(rendered) ==
    /\ Shown
    /\ Becomes(clickEvent_(ThisInterface, rendered))
    /\ UNCHANGED userInteractions

ContextMenuAsked(rendered) ==
    /\ Shown
    /\ Becomes(contextMenuEvent_(ThisInterface, rendered))
    /\ UNCHANGED userInteractions

\* The context menu is closed, without an item chosen
MenuClosed ==
    /\ contextMenu.showing
    /\ Becomes(contextMenuClosed_([ThisInterface EXCEPT !.contextMenu = NoMenu]))
    /\ UNCHANGED userInteractions

\* An item of the context menu is chosen
QueryChosen(type) ==
    /\ contextMenu.showing /\ type \in contextMenu.items
    /\ Becomes(query_(ThisInterface, type))
    /\ UNCHANGED userInteractions

ZoomChosen ==
    /\ contextMenu.showing /\ "zoom" \in contextMenu.items
    /\ Becomes(zoomTo_(ThisInterface))
    /\ UNCHANGED userInteractions

\* annotate_: the dialog is opened, with a callback that clears _modal
annotate_ ==
    /\ contextMenu.showing /\ "annotate" \in contextMenu.items
    /\ editAnnotation(contextMenu.id)
    /\ InterfaceBecomes(hide(ThisInterface))
    /\ UNCHANGED userInteractions

\* The dialog is closed: dialogClose_ calls the callback unless it shows
\* the dialog again
DialogClosed(returnValue, newText) ==
    /\ dialogClose_(returnValue, newText)
    /\ InterfaceBecomes([ThisInterface EXCEPT
            !.modal = IF dialog' = "closed" THEN FALSE ELSE @,
            !.threw = last'.threw])
    /\ UNCHANGED userInteractions

---------------------------------------------------------------------------
(* The maps the interface is made for, and what reaches it *)

\* The layers of a map: one selectable layer, two, or none
MapLayer(id, selectable, queryable) ==
    [id |-> id, selectable |-> selectable, queryable |-> queryable]

LayerLists ==
    { <<MapLayer(<<"A">>, TRUE, TRUE), MapLayer(<<"B">>, FALSE, FALSE)>>,
      <<MapLayer(<<"A">>, TRUE, FALSE), MapLayer(<<"B">>, TRUE, TRUE)>>,
      <<MapLayer(<<"A">>, FALSE, TRUE), MapLayer(<<"B">>, FALSE, TRUE)>> }

\* Saved states of a map
SavedStates ==
    { [layers |-> <<>>], [layers |-> <<<<"A">>>>], [zoom |-> 4] }

MapOptions ==
    [annotatable : BOOLEAN, layers : LayerLists]

\* Maps whose layer with features can be made active
InteractiveMapOptions ==
    { o \in MapOptions : o.layers[1].selectable }

MapOptionsWithState ==
    MapOptions \cup [annotatable : BOOLEAN, layers : LayerLists, state : SavedStates]

ModelsText == <<"#", "a", " ", "m", "o", "d", "e", "l", "s", "(", "F", "M", "A", ":", "1", ")">>

\* The annotations of the map: of its first feature, with models and
\* without, and of every feature
AnnotatedMetadata ==
    { [f \in {1} |-> Entry(1, <<"#", "a">>)],
      [f \in {1} |-> Entry(1, ModelsText)],
      [f \in Features |->
            Entry(f, IF f = 1 THEN <<"#", "a">>
                     ELSE <<"#", "b">> \o (IF f = 2 THEN <<>> ELSE Decimal(f)))] }

\* The features rendered at a point, uppermost first
MaxRendered == 2

RECURSIVE RenderedOf(_, _)
RenderedOf(fs, n) ==
    {<<>>} \cup
    (IF n = 0 THEN {}
     ELSE UNION {{<<f>> \o rest : rest \in RenderedOf(fs \ {f}, n - 1)} : f \in fs})

Rendered == RenderedOf(Features, MaxRendered)

\* Messages: of layers, by their full ids and by their own, and of the
\* results of a query, urls of annotations and an url of none
ResultUrls == DOMAIN urlToAnnotation \cup {<<"s", "/", "A", "/", "n", "o", "n", "e">>}

LayerMessages ==
    [action : {"flatmap-activate-layer", "flatmap-deactivate-layer"},
     resource : {fullLayerId(id) : id \in Layers} \cup {<<"A">>}]

RECURSIVE UrlLists(_)
UrlLists(n) ==
    IF n = 0 THEN {<<>>}
    ELSE UrlLists(n - 1)
            \cup {<<url>> \o urls : url \in ResultUrls,
                                    urls \in {us \in UrlLists(n - 1) : Len(us) = n - 1}}

QueryMessages ==
    [action : {"flatmap-query-results"},
     resource : UrlLists(MaxHighlighted) \ {<<>>}]

\* The layer with features is made active
ActivationMessages ==
    [action : {"flatmap-activate-layer"}, resource : {fullLayerId(<<"A">>)}]

\* What is typed into the dialog
InterfaceTexts == { <<>>, <<"#", "b">>, <<"a", "?">> }

---------------------------------------------------------------------------
(* Map numbers and instance ids (MapManager.loadMap, FlatMap) *)

\* The calls of loadMap that have made a FlatMap
Made == {caller \in Callers : loads[caller].settled = "resolved"}

\* The description loadMap gives the FlatMap it makes
Description(caller) ==
    [id |-> loads[caller].map.id, number |-> loads[caller].number]

\* FlatMap.fullLayerId of a FlatMap
FullLayerIdOf(mapDescription, layerId) ==
    instanceId(mapDescription) \o <<"/">> \o layerId

\* C37: however the calls of loadMap interleave, the FlatMaps that are made
\* have map numbers that differ, each is numbered with the count of the maps
\* made so far, and two of them never have the same instance id nor the same
\* full id for a layer.
C37_DistinctMapNumbers ==
    \A one \in Made :
        /\ loads[one].number \in 1..mapNumber
        /\ \A other \in Made \ {one} :
              /\ loads[one].number # loads[other].number
              /\ instanceId(Description(one)) # instanceId(Description(other))
              /\ \A layerId \in MapLayerIds :
                    FullLayerIdOf(Description(one), layerId)
                        # FullLayerIdOf(Description(other), layerId)

\* C37: two maps were made from the same entry of the index
C37_Witness ==
    \E one \in Made, other \in Made :
        /\ one # other
        /\ loads[one].map.id = loads[other].map.id
        /\ mapNumber = 2

---------------------------------------------------------------------------
(* The metadata of a map and its index by feature id *)

\* C38: the features the metadata has entries for are the features of the
\* feature-id index, and the annotation text of each entry is the text of
\* the annotation stored for the feature.
C38_MetadataMatchesIndex ==
    /\ DOMAIN metadata = DOMAIN idToAnnotation
    /\ \A featureId \in DOMAIN metadata :
          metadata[featureId].annotation = Stored(featureId).text

\* C38: the dialog has stored a new text for a feature that had another,
\* while another feature has an entry too
C38_Witness ==
    /\ last.posted
    /\ \E featureId \in DOMAIN metadata :
          /\ metadata[featureId].annotation = <<"#", "b">>
          /\ Stored(featureId).text = <<"#", "b">>
          /\ DOMAIN metadata # {featureId}

---------------------------------------------------------------------------
(* The fill and pattern style layers of a layer *)

\* The key of a feature's style the constructor that ran takes for a texture
TextureKey == IF constructed = "MapFeatureLayer" THEN "pattern" ELSE "texture"

\* The Polygon features of the layer, and those with a resolved texture
Polygons == {i \in 1..Len(layerFeatures) : layerFeatures[i].type = "Polygon"}
Textured == {i \in Polygons : TextureKey \in DOMAIN layerFeatures[i].styling}

\* The style layer of the map with an id, as a set of none or one
StyleLayerOf(id) ==
    {i \in 1..Len(styleLayers) : \E sourceLayer \in MapLayerIds :
                                    styleLayers[i].id = sourceLayer \o id}

\* The fill-type style layers that draw a feature
Covering(i) ==
    {l \in StyleLayerOf(<<"-", "f", "i", "l", "l">>) \cup StyleLayerOf(<<"-", "p", "a", "t", "t", "e", "r", "n">>) :
        Passes(styleLayers[l].filter, layerFeatures[i])}

Kinds(ls) == [i \in 1..Len(ls) |-> ls[i].type]

\* C39: when a layer has been added, adding it did not throw; every
\* Polygon feature is drawn by exactly one of the fill and pattern style
\* layers, by the pattern layer when it has a resolved texture and by the
\* fill layer when not; and when no feature is textured there is no
\* pattern layer and the style layers are the fill, border and line layers.
C39_PolygonsCoveredOnce ==
    constructed \in {"MapboxStyleLayers", "MapFeatureLayer"} =>
        /\ ~constructThrew
        /\ \A i \in Polygons :
              /\ Cardinality(Covering(i)) = 1
              /\ i \in Textured => Covering(i) = StyleLayerOf(<<"-", "p", "a", "t", "t", "e", "r", "n">>)
              /\ i \notin Textured => Covering(i) = StyleLayerOf(<<"-", "f", "i", "l", "l">>)
        /\ Textured = {} =>
              /\ StyleLayerOf(<<"-", "p", "a", "t", "t", "e", "r", "n">>) = {}
              /\ Kinds(styleLayers) = <<"fill", "line", "line">>
              /\ Len(styleLayerIds) = 3

---------------------------------------------------------------------------
(* The layer switcher, when there is none *)

\* A click on the map is handled, and a saved state with a layers entry
\* is restored, by the timeout of finalise_ or by FlatMap.setState
ClickHandled == \E rendered \in Rendered : MapClicked(rendered)

LayersRestored ==
    \/ StateTimeout /\ "layers" \in DOMAIN options.state
    \/ \E state \in SavedStates : "layers" \in DOMAIN state /\ StateSet(state)

\* C36: whatever the number of selectable layers of the map, none and one
\* included, handling a click event and restoring a saved state with a
\* layers entry complete without error.
C36_CompleteWithoutSwitcher ==
    [][ClickHandled \/ LayersRestored => ~handlerThrew']_vars

---------------------------------------------------------------------------
(* The callback of the loaded user interface *)

\* C35: the user-interface-loaded callback is called at most once,
\* whatever the layer switcher calls back, and exactly once when the
\* interface has been made without a layer switcher; the promise of
\* loadMap is resolved at most once for the map.
C35_CallbackCalledOnce ==
    /\ callbackCalls <= 1
    /\ userInteractions /\ ~layerSwitcher => callbackCalls = 1
    /\ resolves <= 1
    /\ resolves <= callbackCalls

\* The layer switcher has called back, the state of the options has been
\* restored and the promise is resolved
C35_Witness ==
    /\ layerSwitcher /\ callbackCalls = 1 /\ resolves = 1
    /\ "state" \in DOMAIN options /\ ~stateTimer

---------------------------------------------------------------------------
(* The paint of the active layers of the interface *)

\* C31: however layers were made active and not, by the single selectable
\* layer of the map and by messages, and however often the annotation
\* control was clicked, the border and line paint properties of every
\* active layer are those of layerActive = true and of the annotating
\* flag as it is now.
C31_ActiveLayersPainted ==
    \A id \in DOMAIN layers :
        IsActive(id) =>
            /\ layers[id].border = LayerActivated(layers[id], Annotating(ThisInterface)).border
            /\ layers[id].line = LayerActivated(layers[id], Annotating(ThisInterface)).line

---------------------------------------------------------------------------
(* The selected feature *)

\* The features with a flag in their feature state
WithState(flag) == {f \in Features : flag \in StateOf(ThisMap, f)}

\* C32: after any mouse moves, clicks and context menus at most one
\* feature has the 'selected' feature state, which is then the feature
\* recorded as selected; with no feature recorded, none has the state.
C32_OneSelectedFeature ==
    /\ Cardinality(WithState("selected")) <= 1
    /\ \A f \in WithState("selected") : f = selectedFeature
    /\ selectedFeature = NoSelection => WithState("selected") = {}

\* A line is selected and has the state, after a query was asked for in
\* the context menu of another feature: the selection has passed from
\* feature to feature
C32_Witness ==
    /\ selectedFeature = 2 /\ WithState("selected") = {2}
    /\ tooltip = 2 /\ ~contextMenu.showing /\ ~modal
    /\ "annotated" \in StateOf(ThisMap, 1) /\ inQuery

---------------------------------------------------------------------------
(* The highlighted features *)

Recorded == {highlightedFeatures[i] : i \in 1..Len(highlightedFeatures)}

\* A query is started from the context menu
QueryStarted == \E type \in {"data", "edges", "nodes"} : QueryChosen(type)

\* C33: every feature with the 'highlighted' feature state is in the list
\* of the highlighted features, however the results of queries, clicks and
\* new queries follow each other; and after a click on the map and after
\* the start of a query no feature is highlighted and the list is empty.
C33_HighlightedAreRecorded ==
    /\ [](WithState("highlighted") \subseteq Recorded)
    /\ [][ClickHandled \/ QueryStarted =>
            /\ WithState("highlighted")' = {}
            /\ highlightedFeatures' = <<>>]_vars

---------------------------------------------------------------------------
(* The modal flag *)

\* What was chosen in the context menu has finished, or the menu has closed
MenuActionFinished ==
    \/ QueryStarted
    \/ ZoomChosen
    \/ MenuClosed
    \/ dialog = "open" /\ dialog' = "closed"

\* C34: while the context menu, or the annotation dialog opened from it,
\* is showing, the modal flag is set and a mouse move changes neither the
\* selected feature nor the tooltip; and when the action chosen in the
\* menu has finished (a query, a zoom, an annotation whose dialog has
\* closed by a Save or a Cancel), or the menu has closed, the flag is clear.
C34_ModalWhileMenuOrDialog ==
    /\ [](contextMenu.showing \/ dialog = "open" => modal)
    /\ [][modal /\ (\E rendered \in Rendered : MouseMoved(rendered))
            => UNCHANGED <<selectedFeature, tooltip>>]_vars
    /\ [][MenuActionFinished => ~modal']_vars


---------------------------------------------------------------------------
(* Specifications *)

\* A map loaded from its persisted metadata, and the annotation dialog
Loaded(fm) ==
    /\ heap = fm.heap
    /\ idToAnnotation = fm.idToAnnotation
    /\ urlToAnnotation = fm.urlToAnnotation
    /\ metadata = fm.metadata
    /\ featureStates = fm.states

Init ==
    /\ \E md \in PersistedMetadata : Loaded(LayersAdded(NewFlatMap(md)))
    /\ currentAnn = NoAnn
    /\ dialog = "closed"
    /\ last = [posted |-> FALSE, threw |-> FALSE]
    /\ given = [raw |-> TRUE, chunks |-> <<>>]
    /\ text = <<>> /\ result = NoResult /\ parsePc = "idle"
    /\ key = <<>> /\ normalised = <<>> /\ renormalised = <<>> /\ keyPc = "idle"
    /\ entities = EmptyMap /\ tableLoaded = FALSE /\ lookedUp = NoLookup
    /\ styleRules = <<>> /\ sequence = 0 /\ rulesMap = EmptyMap
    /\ registered = <<>> /\ loadThrew = FALSE
    /\ feature = NoFeature /\ stack = <<>> /\ visits = <<>>
    /\ resolved = NoStyle /\ stylePc = "idle"
    /\ rendering = NoRendering /\ painted = NoPaint /\ paintPc = "idle"
    /\ layers = EmptyMap /\ activeLayers = <<>> /\ activeLayerIds = <<>>
    /\ serverIndex = <<>> /\ mapIndex = NoIndex /\ initialised = FALSE
    /\ initialisingMutex = Unlocked /\ mapNumber = 0 /\ fetches = 0
    /\ loads = <<>>
    /\ layerFeatures = <<>> /\ styleLayers = <<>> /\ styleLayerIds = <<>>
    /\ constructed = "idle" /\ constructThrew = FALSE
    /\ options = NoOptions /\ userInteractions = FALSE /\ contextMenuReports = FALSE
    /\ enabled = FALSE /\ layerSwitcher = FALSE /\ userInterfaceLoadedCallback = FALSE
    /\ callbackCalls = 0 /\ resolves = 0 /\ stateTimer = FALSE
    /\ selectedFeature = NoSelection /\ highlightedFeatures = <<>>
    /\ inQuery = FALSE /\ modal = FALSE /\ tooltip = Hidden
    /\ contextMenu = NoMenu /\ handlerThrew = FALSE

Next ==
    \/ \E f \in Features : editAnnotation(f) /\ UNCHANGED <<parserVars, ontologyVars, resolverVars, styleVars, queryVars, laterVars>>
    \/ \E t \in DialogTexts : dialogClose_("Save", t) /\ UNCHANGED <<parserVars, ontologyVars, resolverVars, styleVars, queryVars, laterVars>>
    \/ dialogClose_("Cancel", <<>>) /\ UNCHANGED <<parserVars, ontologyVars, resolverVars, styleVars, queryVars, laterVars>>

Spec == Init /\ [][Next]_vars

\* The parser on its own, on every given text
ParserInit ==
    /\ given \in Givens
    /\ text = Written(given)
    /\ result = NoResult
    /\ parsePc = "parse"
    /\ heap = EmptyMap /\ idToAnnotation = EmptyMap
    /\ urlToAnnotation = EmptyMap /\ metadata = EmptyMap
    /\ featureStates = EmptyMap
    /\ currentAnn = NoAnn /\ dialog = "idle"
    /\ last = [posted |-> FALSE, threw |-> FALSE]
    /\ key = <<>> /\ normalised = <<>> /\ renormalised = <<>> /\ keyPc = "idle"
    /\ entities = EmptyMap /\ tableLoaded = FALSE /\ lookedUp = NoLookup
    /\ styleRules = <<>> /\ sequence = 0 /\ rulesMap = EmptyMap
    /\ registered = <<>> /\ loadThrew = FALSE
    /\ feature = NoFeature /\ stack = <<>> /\ visits = <<>>
    /\ resolved = NoStyle /\ stylePc = "idle"
    /\ rendering = NoRendering /\ painted = NoPaint /\ paintPc = "idle"
    /\ layers = EmptyMap /\ activeLayers = <<>> /\ activeLayerIds = <<>>
    /\ serverIndex = <<>> /\ mapIndex = NoIndex /\ initialised = FALSE
    /\ initialisingMutex = Unlocked /\ mapNumber = 0 /\ fetches = 0
    /\ loads = <<>>
    /\ layerFeatures = <<>> /\ styleLayers = <<>> /\ styleLayerIds = <<>>
    /\ constructed = "idle" /\ constructThrew = FALSE
    /\ options = NoOptions /\ userInteractions = FALSE /\ contextMenuReports = FALSE
    /\ enabled = FALSE /\ layerSwitcher = FALSE /\ userInterfaceLoadedCallback = FALSE
    /\ callbackCalls = 0 /\ resolves = 0 /\ stateTimer = FALSE
    /\ selectedFeature = NoSelection /\ highlightedFeatures = <<>>
    /\ inQuery = FALSE /\ modal = FALSE /\ tooltip = Hidden
    /\ contextMenu = NoMenu /\ handlerThrew = FALSE

ParserNext == ParseText /\ UNCHANGED <<ontologyVars, flatmapVars, annotatorVars, resolverVars, styleVars, queryVars, laterVars>>

ParserSpec == ParserInit /\ [][ParserNext]_vars

\* The key normalisation on its own, on every given key
OntologyInit ==
    /\ key \in Keys
    /\ normalised = <<>>
    /\ renormalised = <<>>
    /\ keyPc = "normalise"
    /\ heap = EmptyMap /\ idToAnnotation = EmptyMap
    /\ urlToAnnotation = EmptyMap /\ metadata = EmptyMap
    /\ featureStates = EmptyMap
    /\ currentAnn = NoAnn /\ dialog = "idle"
    /\ last = [posted |-> FALSE, threw |-> FALSE]
    /\ given = [raw |-> TRUE, chunks |-> <<>>]
    /\ text = <<>> /\ result = NoResult /\ parsePc = "idle"
    /\ entities = EmptyMap /\ tableLoaded = FALSE /\ lookedUp = NoLookup
    /\ styleRules = <<>> /\ sequence = 0 /\ rulesMap = EmptyMap
    /\ registered = <<>> /\ loadThrew = FALSE
    /\ feature = NoFeature /\ stack = <<>> /\ visits = <<>>
    /\ resolved = NoStyle /\ stylePc = "idle"
    /\ rendering = NoRendering /\ painted = NoPaint /\ paintPc = "idle"
    /\ layers = EmptyMap /\ activeLayers = <<>> /\ activeLayerIds = <<>>
    /\ serverIndex = <<>> /\ mapIndex = NoIndex /\ initialised = FALSE
    /\ initialisingMutex = Unlocked /\ mapNumber = 0 /\ fetches = 0
    /\ loads = <<>>
    /\ layerFeatures = <<>> /\ styleLayers = <<>> /\ styleLayerIds = <<>>
    /\ constructed = "idle" /\ constructThrew = FALSE
    /\ options = NoOptions /\ userInteractions = FALSE /\ contextMenuReports = FALSE
    /\ enabled = FALSE /\ layerSwitcher = FALSE /\ userInterfaceLoadedCallback = FALSE
    /\ callbackCalls = 0 /\ resolves = 0 /\ stateTimer = FALSE
    /\ selectedFeature = NoSelection /\ highlightedFeatures = <<>>
    /\ inQuery = FALSE /\ modal = FALSE /\ tooltip = Hidden
    /\ contextMenu = NoMenu /\ handlerThrew = FALSE

OntologyNext ==
    \/ Normalise /\ UNCHANGED <<parserVars, flatmapVars, annotatorVars, resolverVars, styleVars, queryVars, laterVars>>
    \/ NormaliseAgain /\ UNCHANGED <<parserVars, flatmapVars, annotatorVars, resolverVars, styleVars, queryVars, laterVars>>

OntologySpec == OntologyInit /\ [][OntologyNext]_vars

\* The table of entities is loaded, and entities are looked up
ResolverInit ==
    /\ entities = EmptyMap
    /\ tableLoaded = FALSE
    /\ lookedUp = NoLookup
    /\ heap = EmptyMap /\ idToAnnotation = EmptyMap
    /\ urlToAnnotation = EmptyMap /\ metadata = EmptyMap
    /\ featureStates = EmptyMap
    /\ currentAnn = NoAnn /\ dialog = "idle"
    /\ last = [posted |-> FALSE, threw |-> FALSE]
    /\ given = [raw |-> TRUE, chunks |-> <<>>]
    /\ text = <<>> /\ result = NoResult /\ parsePc = "idle"
    /\ key = <<>> /\ normalised = <<>> /\ renormalised = <<>> /\ keyPc = "idle"
    /\ styleRules = <<>> /\ sequence = 0 /\ rulesMap = EmptyMap
    /\ registered = <<>> /\ loadThrew = FALSE
    /\ feature = NoFeature /\ stack = <<>> /\ visits = <<>>
    /\ resolved = NoStyle /\ stylePc = "idle"
    /\ rendering = NoRendering /\ painted = NoPaint /\ paintPc = "idle"
    /\ layers = EmptyMap /\ activeLayers = <<>> /\ activeLayerIds = <<>>
    /\ serverIndex = <<>> /\ mapIndex = NoIndex /\ initialised = FALSE
    /\ initialisingMutex = Unlocked /\ mapNumber = 0 /\ fetches = 0
    /\ loads = <<>>
    /\ layerFeatures = <<>> /\ styleLayers = <<>> /\ styleLayerIds = <<>>
    /\ constructed = "idle" /\ constructThrew = FALSE
    /\ options = NoOptions /\ userInteractions = FALSE /\ contextMenuReports = FALSE
    /\ enabled = FALSE /\ layerSwitcher = FALSE /\ userInterfaceLoadedCallback = FALSE
    /\ callbackCalls = 0 /\ resolves = 0 /\ stateTimer = FALSE
    /\ selectedFeature = NoSelection /\ highlightedFeatures = <<>>
    /\ inQuery = FALSE /\ modal = FALSE /\ tooltip = Hidden
    /\ contextMenu = NoMenu /\ handlerThrew = FALSE

ResolverNext ==
    \/ \E table \in UberonTables : initialize_(table) /\ UNCHANGED <<parserVars, ontologyVars, flatmapVars, annotatorVars, styleVars, queryVars, laterVars>>
    \/ \E k \in LookupKeys : LookUp(k) /\ UNCHANGED <<parserVars, ontologyVars, flatmapVars, annotatorVars, styleVars, queryVars, laterVars>>

ResolverSpec == ResolverInit /\ [][ResolverNext]_vars

\* The table of entities and the stylesheets are loaded, and then the styles
\* of features are asked for
StyleInit ==
    /\ entities = EmptyMap /\ tableLoaded = FALSE /\ lookedUp = NoLookup
    /\ styleRules = <<>> /\ sequence = 0 /\ loadThrew = FALSE
    /\ rulesMap = EmptyMap /\ registered = <<>>
    /\ feature = NoFeature /\ stack = <<>> /\ visits = <<>>
    /\ resolved = NoStyle
    /\ stylePc = "loading"
    /\ heap = EmptyMap /\ idToAnnotation = EmptyMap
    /\ urlToAnnotation = EmptyMap /\ metadata = EmptyMap
    /\ featureStates = EmptyMap
    /\ currentAnn = NoAnn /\ dialog = "idle"
    /\ last = [posted |-> FALSE, threw |-> FALSE]
    /\ given = [raw |-> TRUE, chunks |-> <<>>]
    /\ text = <<>> /\ result = NoResult /\ parsePc = "idle"
    /\ key = <<>> /\ normalised = <<>> /\ renormalised = <<>> /\ keyPc = "idle"
    /\ rendering = NoRendering /\ painted = NoPaint /\ paintPc = "idle"
    /\ layers = EmptyMap /\ activeLayers = <<>> /\ activeLayerIds = <<>>
    /\ serverIndex = <<>> /\ mapIndex = NoIndex /\ initialised = FALSE
    /\ initialisingMutex = Unlocked /\ mapNumber = 0 /\ fetches = 0
    /\ loads = <<>>
    /\ layerFeatures = <<>> /\ styleLayers = <<>> /\ styleLayerIds = <<>>
    /\ constructed = "idle" /\ constructThrew = FALSE
    /\ options = NoOptions /\ userInteractions = FALSE /\ contextMenuReports = FALSE
    /\ enabled = FALSE /\ layerSwitcher = FALSE /\ userInterfaceLoadedCallback = FALSE
    /\ callbackCalls = 0 /\ resolves = 0 /\ stateTimer = FALSE
    /\ selectedFeature = NoSelection /\ highlightedFeatures = <<>>
    /\ inQuery = FALSE /\ modal = FALSE /\ tooltip = Hidden
    /\ contextMenu = NoMenu /\ handlerThrew = FALSE

StyleNext ==
    \/ \E table \in StyleTables : initialize_(table) /\ UNCHANGED <<parserVars, ontologyVars, flatmapVars, annotatorVars, styleVars, queryVars, laterVars>>
    \/ \E cssText \in CssTexts(MaxRules - Len(styleRules)) : addStyleRules_(cssText) /\ UNCHANGED <<parserVars, ontologyVars, flatmapVars, annotatorVars, resolverVars, queryVars, laterVars>>
    \/ \E annotation \in StyleAnnotations : featureStyle(MapFeature(annotation)) /\ UNCHANGED <<parserVars, ontologyVars, flatmapVars, annotatorVars, resolverVars, styleVars, laterVars>>
    \/ modelStyle /\ UNCHANGED <<parserVars, ontologyVars, flatmapVars, annotatorVars, resolverVars, styleVars, laterVars>>
    \/ EntityStyled /\ UNCHANGED <<parserVars, ontologyVars, flatmapVars, annotatorVars, resolverVars, styleVars, laterVars>>
    \/ FeatureStyled /\ UNCHANGED <<parserVars, ontologyVars, flatmapVars, annotatorVars, resolverVars, styleVars, laterVars>>

StyleSpec == StyleInit /\ [][StyleNext]_vars

\* The stylesheets of features.js are loaded
PatternInit ==
    /\ rulesMap = EmptyMap
    /\ registered = <<>>
    /\ loadThrew = FALSE
    /\ styleRules = <<>> /\ sequence = 0
    /\ entities = EmptyMap /\ tableLoaded = FALSE /\ lookedUp = NoLookup
    /\ feature = NoFeature /\ stack = <<>> /\ visits = <<>>
    /\ resolved = NoStyle /\ stylePc = "idle"
    /\ heap = EmptyMap /\ idToAnnotation = EmptyMap
    /\ urlToAnnotation = EmptyMap /\ metadata = EmptyMap
    /\ featureStates = EmptyMap
    /\ currentAnn = NoAnn /\ dialog = "idle"
    /\ last = [posted |-> FALSE, threw |-> FALSE]
    /\ given = [raw |-> TRUE, chunks |-> <<>>]
    /\ text = <<>> /\ result = NoResult /\ parsePc = "idle"
    /\ key = <<>> /\ normalised = <<>> /\ renormalised = <<>> /\ keyPc = "idle"
    /\ rendering = NoRendering /\ painted = NoPaint /\ paintPc = "idle"
    /\ layers = EmptyMap /\ activeLayers = <<>> /\ activeLayerIds = <<>>
    /\ serverIndex = <<>> /\ mapIndex = NoIndex /\ initialised = FALSE
    /\ initialisingMutex = Unlocked /\ mapNumber = 0 /\ fetches = 0
    /\ loads = <<>>
    /\ layerFeatures = <<>> /\ styleLayers = <<>> /\ styleLayerIds = <<>>
    /\ constructed = "idle" /\ constructThrew = FALSE
    /\ options = NoOptions /\ userInteractions = FALSE /\ contextMenuReports = FALSE
    /\ enabled = FALSE /\ layerSwitcher = FALSE /\ userInterfaceLoadedCallback = FALSE
    /\ callbackCalls = 0 /\ resolves = 0 /\ stateTimer = FALSE
    /\ selectedFeature = NoSelection /\ highlightedFeatures = <<>>
    /\ inQuery = FALSE /\ modal = FALSE /\ tooltip = Hidden
    /\ contextMenu = NoMenu /\ handlerThrew = FALSE

PatternNext ==
    \E url \in StylesheetUrls, cssText \in PatternTexts :
        fetchStyleRules_(url, cssText)
            /\ UNCHANGED <<parserVars, ontologyVars, flatmapVars, annotatorVars, resolverVars, queryVars, laterVars>>

PatternSpec == PatternInit /\ [][PatternNext]_vars

\* A feature is painted, in every feature state and at every zoom level
PaintInit ==
    /\ rendering \in Renderings
    /\ painted = NoPaint
    /\ paintPc = "paint"
    /\ heap = EmptyMap /\ idToAnnotation = EmptyMap
    /\ urlToAnnotation = EmptyMap /\ metadata = EmptyMap
    /\ featureStates = EmptyMap
    /\ currentAnn = NoAnn /\ dialog = "idle"
    /\ last = [posted |-> FALSE, threw |-> FALSE]
    /\ given = [raw |-> TRUE, chunks |-> <<>>]
    /\ text = <<>> /\ result = NoResult /\ parsePc = "idle"
    /\ key = <<>> /\ normalised = <<>> /\ renormalised = <<>> /\ keyPc = "idle"
    /\ entities = EmptyMap /\ tableLoaded = FALSE /\ lookedUp = NoLookup
    /\ styleRules = <<>> /\ sequence = 0 /\ rulesMap = EmptyMap
    /\ registered = <<>> /\ loadThrew = FALSE
    /\ feature = NoFeature /\ stack = <<>> /\ visits = <<>>
    /\ resolved = NoStyle /\ stylePc = "idle"
    /\ layers = EmptyMap /\ activeLayers = <<>> /\ activeLayerIds = <<>>
    /\ serverIndex = <<>> /\ mapIndex = NoIndex /\ initialised = FALSE
    /\ initialisingMutex = Unlocked /\ mapNumber = 0 /\ fetches = 0
    /\ loads = <<>>
    /\ layerFeatures = <<>> /\ styleLayers = <<>> /\ styleLayerIds = <<>>
    /\ constructed = "idle" /\ constructThrew = FALSE
    /\ options = NoOptions /\ userInteractions = FALSE /\ contextMenuReports = FALSE
    /\ enabled = FALSE /\ layerSwitcher = FALSE /\ userInterfaceLoadedCallback = FALSE
    /\ callbackCalls = 0 /\ resolves = 0 /\ stateTimer = FALSE
    /\ selectedFeature = NoSelection /\ highlightedFeatures = <<>>
    /\ inQuery = FALSE /\ modal = FALSE /\ tooltip = Hidden
    /\ contextMenu = NoMenu /\ handlerThrew = FALSE

PaintNext == Paint /\ UNCHANGED <<earlierVars, layerVars, managerVars, styleLayerVars, interfaceVars>>

PaintSpec == PaintInit /\ [][PaintNext]_vars

\* The layers of a map are added to its layer manager, activated and
\* deactivated
LayerInit ==
    /\ layers = EmptyMap
    /\ activeLayers = <<>>
    /\ activeLayerIds = <<>>
    /\ heap = EmptyMap /\ idToAnnotation = EmptyMap
    /\ urlToAnnotation = EmptyMap /\ metadata = EmptyMap
    /\ featureStates = EmptyMap
    /\ currentAnn = NoAnn /\ dialog = "idle"
    /\ last = [posted |-> FALSE, threw |-> FALSE]
    /\ given = [raw |-> TRUE, chunks |-> <<>>]
    /\ text = <<>> /\ result = NoResult /\ parsePc = "idle"
    /\ key = <<>> /\ normalised = <<>> /\ renormalised = <<>> /\ keyPc = "idle"
    /\ entities = EmptyMap /\ tableLoaded = FALSE /\ lookedUp = NoLookup
    /\ styleRules = <<>> /\ sequence = 0 /\ rulesMap = EmptyMap
    /\ registered = <<>> /\ loadThrew = FALSE
    /\ feature = NoFeature /\ stack = <<>> /\ visits = <<>>
    /\ resolved = NoStyle /\ stylePc = "idle"
    /\ rendering = NoRendering /\ painted = NoPaint /\ paintPc = "idle"
    /\ serverIndex = <<>> /\ mapIndex = NoIndex /\ initialised = FALSE
    /\ initialisingMutex = Unlocked /\ mapNumber = 0 /\ fetches = 0
    /\ loads = <<>>
    /\ layerFeatures = <<>> /\ styleLayers = <<>> /\ styleLayerIds = <<>>
    /\ constructed = "idle" /\ constructThrew = FALSE
    /\ options = NoOptions /\ userInteractions = FALSE /\ contextMenuReports = FALSE
    /\ enabled = FALSE /\ layerSwitcher = FALSE /\ userInterfaceLoadedCallback = FALSE
    /\ callbackCalls = 0 /\ resolves = 0 /\ stateTimer = FALSE
    /\ selectedFeature = NoSelection /\ highlightedFeatures = <<>>
    /\ inQuery = FALSE /\ modal = FALSE /\ tooltip = Hidden
    /\ contextMenu = NoMenu /\ handlerThrew = FALSE

LayerNext ==
    \/ \E layerId \in MapLayerIds : addLayer(layerId) /\ UNCHANGED <<earlierVars, paintVars, managerVars, styleLayerVars, interfaceVars>>
    \/ \E called \in FullLayerIds, annotating \in BOOLEAN :
            activate(called, annotating) /\ UNCHANGED <<earlierVars, paintVars, managerVars, styleLayerVars, interfaceVars>>
    \/ \E called \in FullLayerIds : deactivate(called) /\ UNCHANGED <<earlierVars, paintVars, managerVars, styleLayerVars, interfaceVars>>

LayerSpec == LayerInit /\ [][LayerNext]_vars

\* Maps are loaded through one map manager, from the index the server has
ManagerInit ==
    /\ serverIndex \in MapIndexes
    /\ mapIndex = NoIndex
    /\ initialised = FALSE
    /\ initialisingMutex = Unlocked
    /\ mapNumber = 0
    /\ fetches = 0
    /\ loads = [caller \in Callers |-> NoLoad]
    /\ heap = EmptyMap /\ idToAnnotation = EmptyMap
    /\ urlToAnnotation = EmptyMap /\ metadata = EmptyMap
    /\ featureStates = EmptyMap
    /\ currentAnn = NoAnn /\ dialog = "idle"
    /\ last = [posted |-> FALSE, threw |-> FALSE]
    /\ given = [raw |-> TRUE, chunks |-> <<>>]
    /\ text = <<>> /\ result = NoResult /\ parsePc = "idle"
    /\ key = <<>> /\ normalised = <<>> /\ renormalised = <<>> /\ keyPc = "idle"
    /\ entities = EmptyMap /\ tableLoaded = FALSE /\ lookedUp = NoLookup
    /\ styleRules = <<>> /\ sequence = 0 /\ rulesMap = EmptyMap
    /\ registered = <<>> /\ loadThrew = FALSE
    /\ feature = NoFeature /\ stack = <<>> /\ visits = <<>>
    /\ resolved = NoStyle /\ stylePc = "idle"
    /\ rendering = NoRendering /\ painted = NoPaint /\ paintPc = "idle"
    /\ layers = EmptyMap /\ activeLayers = <<>> /\ activeLayerIds = <<>>
    /\ layerFeatures = <<>> /\ styleLayers = <<>> /\ styleLayerIds = <<>>
    /\ constructed = "idle" /\ constructThrew = FALSE
    /\ options = NoOptions /\ userInteractions = FALSE /\ contextMenuReports = FALSE
    /\ enabled = FALSE /\ layerSwitcher = FALSE /\ userInterfaceLoadedCallback = FALSE
    /\ callbackCalls = 0 /\ resolves = 0 /\ stateTimer = FALSE
    /\ selectedFeature = NoSelection /\ highlightedFeatures = <<>>
    /\ inQuery = FALSE /\ modal = FALSE /\ tooltip = Hidden
    /\ contextMenu = NoMenu /\ handlerThrew = FALSE

ManagerNext ==
    \/ \E caller \in Callers, identifier \in Identifiers :
            loadMap(caller, identifier) /\ UNCHANGED <<earlierVars, paintVars, layerVars, styleLayerVars, interfaceVars>>
    \/ \E caller \in Callers : ensureInitialised_(caller) /\ UNCHANGED <<earlierVars, paintVars, layerVars, styleLayerVars, interfaceVars>>
    \/ \E caller \in Callers, loaded \in BOOLEAN :
            IndexLoaded(caller, loaded) /\ UNCHANGED <<earlierVars, paintVars, layerVars, styleLayerVars, interfaceVars>>
    \/ \E caller \in Callers : findMap_(caller) /\ UNCHANGED <<earlierVars, paintVars, layerVars, styleLayerVars, interfaceVars>>
    \/ \E caller \in Callers, response \in Responses :
            MapLoaded(caller, response) /\ UNCHANGED <<earlierVars, paintVars, layerVars, styleLayerVars, interfaceVars>>

ManagerSpec == ManagerInit /\ [][ManagerNext]_vars

\* The style layers of a layer are made, from the features of the layer
StyleLayerInit ==
    /\ layerFeatures \in AllLayerFeatures
    /\ styleLayers = <<>>
    /\ styleLayerIds = <<>>
    /\ constructed = "new"
    /\ constructThrew = FALSE
    /\ heap = EmptyMap /\ idToAnnotation = EmptyMap
    /\ urlToAnnotation = EmptyMap /\ metadata = EmptyMap
    /\ featureStates = EmptyMap
    /\ currentAnn = NoAnn /\ dialog = "idle"
    /\ last = [posted |-> FALSE, threw |-> FALSE]
    /\ given = [raw |-> TRUE, chunks |-> <<>>]
    /\ text = <<>> /\ result = NoResult /\ parsePc = "idle"
    /\ key = <<>> /\ normalised = <<>> /\ renormalised = <<>> /\ keyPc = "idle"
    /\ entities = EmptyMap /\ tableLoaded = FALSE /\ lookedUp = NoLookup
    /\ styleRules = <<>> /\ sequence = 0 /\ rulesMap = EmptyMap
    /\ registered = <<>> /\ loadThrew = FALSE
    /\ feature = NoFeature /\ stack = <<>> /\ visits = <<>>
    /\ resolved = NoStyle /\ stylePc = "idle"
    /\ rendering = NoRendering /\ painted = NoPaint /\ paintPc = "idle"
    /\ layers = EmptyMap /\ activeLayers = <<>> /\ activeLayerIds = <<>>
    /\ serverIndex = <<>> /\ mapIndex = NoIndex /\ initialised = FALSE
    /\ initialisingMutex = Unlocked /\ mapNumber = 0 /\ fetches = 0
    /\ loads = <<>>
    /\ options = NoOptions /\ userInteractions = FALSE /\ contextMenuReports = FALSE
    /\ enabled = FALSE /\ layerSwitcher = FALSE /\ userInterfaceLoadedCallback = FALSE
    /\ callbackCalls = 0 /\ resolves = 0 /\ stateTimer = FALSE
    /\ selectedFeature = NoSelection /\ highlightedFeatures = <<>>
    /\ inQuery = FALSE /\ modal = FALSE /\ tooltip = Hidden
    /\ contextMenu = NoMenu /\ handlerThrew = FALSE

StyleLayerNext ==
    \/ \E id \in MapLayerIds : MapboxStyleLayers(id) /\ UNCHANGED <<earlierVars, paintVars, layerVars, managerVars, interfaceVars>>
    \/ \E id \in MapLayerIds : NewMapFeatureLayer(id) /\ UNCHANGED <<earlierVars, paintVars, layerVars, managerVars, interfaceVars>>

StyleLayerSpec == StyleLayerInit /\ [][StyleLayerNext]_vars

\* The interface of a map and its layers: the map is loaded, its interface
\* is made, a saved state is restored, layers are made active and are not,
\* the annotation control and the map are clicked
InterfaceInit ==
    /\ options \in MapOptionsWithState
    /\ contextMenuReports \in BOOLEAN
    /\ \E md \in {EmptyMap, [f \in {1} |-> Entry(1, <<"#", "a">>)]} : Loaded(NewFlatMap(md))
    /\ userInteractions = FALSE
    /\ enabled = FALSE /\ layerSwitcher = FALSE /\ userInterfaceLoadedCallback = FALSE
    /\ callbackCalls = 0 /\ resolves = 0 /\ stateTimer = FALSE
    /\ selectedFeature = NoSelection /\ highlightedFeatures = <<>>
    /\ inQuery = FALSE /\ modal = FALSE /\ tooltip = Hidden
    /\ contextMenu = NoMenu /\ handlerThrew = FALSE
    /\ currentAnn = NoAnn
    /\ dialog = "closed"
    /\ last = [posted |-> FALSE, threw |-> FALSE]
    /\ given = [raw |-> TRUE, chunks |-> <<>>]
    /\ text = <<>> /\ result = NoResult /\ parsePc = "idle"
    /\ key = <<>> /\ normalised = <<>> /\ renormalised = <<>> /\ keyPc = "idle"
    /\ entities = EmptyMap /\ tableLoaded = FALSE /\ lookedUp = NoLookup
    /\ styleRules = <<>> /\ sequence = 0 /\ rulesMap = EmptyMap
    /\ registered = <<>> /\ loadThrew = FALSE
    /\ feature = NoFeature /\ stack = <<>> /\ visits = <<>>
    /\ resolved = NoStyle /\ stylePc = "idle"
    /\ rendering = NoRendering /\ painted = NoPaint /\ paintPc = "idle"
    /\ layers = EmptyMap /\ activeLayers = <<>> /\ activeLayerIds = <<>>
    /\ serverIndex = <<>> /\ mapIndex = NoIndex /\ initialised = FALSE
    /\ initialisingMutex = Unlocked /\ mapNumber = 0 /\ fetches = 0
    /\ loads = <<>>
    /\ layerFeatures = <<>> /\ styleLayers = <<>> /\ styleLayerIds = <<>>
    /\ constructed = "idle" /\ constructThrew = FALSE

InterfaceNext ==
    \/ finalise_ /\ UNCHANGED <<parserVars, ontologyVars, resolverVars, styleVars, queryVars, paintVars, managerVars, styleLayerVars>>
    \/ LayerSwitcherActive /\ UNCHANGED <<parserVars, ontologyVars, resolverVars, styleVars, queryVars, paintVars, managerVars, styleLayerVars>>
    \/ StateTimeout /\ UNCHANGED <<parserVars, ontologyVars, resolverVars, styleVars, queryVars, paintVars, managerVars, styleLayerVars>>
    \/ \E state \in SavedStates : StateSet(state) /\ UNCHANGED <<parserVars, ontologyVars, resolverVars, styleVars, queryVars, paintVars, managerVars, styleLayerVars>>
    \/ \E msg \in LayerMessages : MessageReceived(msg) /\ UNCHANGED <<parserVars, ontologyVars, resolverVars, styleVars, queryVars, paintVars, managerVars, styleLayerVars>>
    \/ ControlClicked /\ UNCHANGED <<parserVars, ontologyVars, resolverVars, styleVars, queryVars, paintVars, managerVars, styleLayerVars>>
    \/ \E rendered \in Rendered : MapClicked(rendered) /\ UNCHANGED <<parserVars, ontologyVars, resolverVars, styleVars, queryVars, paintVars, managerVars, styleLayerVars>>

InterfaceSpec == InterfaceInit /\ [][InterfaceNext]_vars

\* The user interface of a map: the map is loaded, its interface is made,
\* and events reach it
InteractionInit ==
    /\ options \in InteractiveMapOptions
    /\ contextMenuReports \in BOOLEAN
    /\ \E md \in AnnotatedMetadata : Loaded(NewFlatMap(md))
    /\ userInteractions = FALSE
    /\ enabled = FALSE /\ layerSwitcher = FALSE /\ userInterfaceLoadedCallback = FALSE
    /\ callbackCalls = 0 /\ resolves = 0 /\ stateTimer = FALSE
    /\ selectedFeature = NoSelection /\ highlightedFeatures = <<>>
    /\ inQuery = FALSE /\ modal = FALSE /\ tooltip = Hidden
    /\ contextMenu = NoMenu /\ handlerThrew = FALSE
    /\ currentAnn = NoAnn
    /\ dialog = "closed"
    /\ last = [posted |-> FALSE, threw |-> FALSE]
    /\ given = [raw |-> TRUE, chunks |-> <<>>]
    /\ text = <<>> /\ result = NoResult /\ parsePc = "idle"
    /\ key = <<>> /\ normalised = <<>> /\ renormalised = <<>> /\ keyPc = "idle"
    /\ entities = EmptyMap /\ tableLoaded = FALSE /\ lookedUp = NoLookup
    /\ styleRules = <<>> /\ sequence = 0 /\ rulesMap = EmptyMap
    /\ registered = <<>> /\ loadThrew = FALSE
    /\ feature = NoFeature /\ stack = <<>> /\ visits = <<>>
    /\ resolved = NoStyle /\ stylePc = "idle"
    /\ rendering = NoRendering /\ painted = NoPaint /\ paintPc = "idle"
    /\ layers = EmptyMap /\ activeLayers = <<>> /\ activeLayerIds = <<>>
    /\ serverIndex = <<>> /\ mapIndex = NoIndex /\ initialised = FALSE
    /\ initialisingMutex = Unlocked /\ mapNumber = 0 /\ fetches = 0
    /\ loads = <<>>
    /\ layerFeatures = <<>> /\ styleLayers = <<>> /\ styleLayerIds = <<>>
    /\ constructed = "idle" /\ constructThrew = FALSE

InteractionNext ==
    \/ finalise_ /\ UNCHANGED <<parserVars, ontologyVars, resolverVars, styleVars, queryVars, paintVars, managerVars, styleLayerVars>>
    \/ \E msg \in ActivationMessages \cup QueryMessages : MessageReceived(msg) /\ UNCHANGED <<parserVars, ontologyVars, resolverVars, styleVars, queryVars, paintVars, managerVars, styleLayerVars>>
    \/ ControlClicked /\ UNCHANGED <<parserVars, ontologyVars, resolverVars, styleVars, queryVars, paintVars, managerVars, styleLayerVars>>
    \/ \E rendered \in Rendered : MouseMoved(rendered) /\ UNCHANGED <<parserVars, ontologyVars, resolverVars, styleVars, queryVars, paintVars, managerVars, styleLayerVars>>
    \/ \E rendered \in Rendered : MapClicked(rendered) /\ UNCHANGED <<parserVars, ontologyVars, resolverVars, styleVars, queryVars, paintVars, managerVars, styleLayerVars>>
    \/ \E rendered \in Rendered : ContextMenuAsked(rendered) /\ UNCHANGED <<parserVars, ontologyVars, resolverVars, styleVars, queryVars, paintVars, managerVars, styleLayerVars>>
    \/ MenuClosed /\ UNCHANGED <<parserVars, ontologyVars, resolverVars, styleVars, queryVars, paintVars, managerVars, styleLayerVars>>
    \/ \E type \in {"data", "edges", "nodes"} : QueryChosen(type) /\ UNCHANGED <<parserVars, ontologyVars, resolverVars, styleVars, queryVars, paintVars, managerVars, styleLayerVars>>
    \/ ZoomChosen /\ UNCHANGED <<parserVars, ontologyVars, resolverVars, styleVars, queryVars, paintVars, managerVars, styleLayerVars>>
    \/ annotate_ /\ UNCHANGED <<parserVars, ontologyVars, resolverVars, styleVars, queryVars, paintVars, managerVars, styleLayerVars>>
    \/ \E t \in InterfaceTexts : DialogClosed("Save", t) /\ UNCHANGED <<parserVars, ontologyVars, resolverVars, styleVars, queryVars, paintVars, managerVars, styleLayerVars>>
    \/ DialogClosed("Cancel", <<>>) /\ UNCHANGED <<parserVars, ontologyVars, resolverVars, styleVars, queryVars, paintVars, managerVars, styleLayerVars>>

InteractionSpec == InteractionInit /\ [][InteractionNext]_vars

===========================================================================
